---- MODULE Spec2Model ----
(***************************************************************************)
(* A model of photokit (RhetTbull/photokit): the process-wide library-mode *)
(* flag, the callback-to-blocking completion bridge used by every          *)
(* asynchronous PhotoKit request and mutation, the asset factory, and the  *)
(* export paths of the asset classes.                                      *)
(*                                                                         *)
(* Each subsystem has its own specification over the module's variables:   *)
(*   SpecMode    photolibrary.py  PhotoLibrary construction and mode flag  *)
(*   SpecBridge  asset.py / album.py / photolibrary.py  blocking calls     *)
(*   SpecFactory photolibrary.py  _asset_factory                           *)
(*   SpecExport  asset.py  export / _request_*_data validation order       *)
(*   SpecFiles   utils.py / asset.py  the files export writes into dest     *)
(*   SpecLibrary photolibrary.py  fetches, delete_assets, add_photo, album  *)
(*   SpecAuth    photolibrary.py  request_authorization                     *)
(*   SpecObserver changeobserver.py  the change observer                    *)
(*   SpecLive    asset.py / photokit.py  requestLivePhotoResources         *)
(*   SpecLiveFair  SpecLive with the requesting thread running on          *)
(*   SpecSlowMo  asset.py  exportSlowMoVideo                               *)
(*   SpecThreads photolibrary.py  constructions on concurrent threads      *)
(*   SpecRace    utils.py / asset.py  concurrent exports into one directory*)
(***************************************************************************)
EXTENDS Integers, Sequences, FiniteSets, TLC

VARIABLES
    \* ---- photolibrary.py: process-wide mode and PhotoLibrary construction
    _global_single_library_mode, \* photolibrary.py:33
    native_multi_library_mode,   \* Photos.PHPhotoLibrary.enableMultiLibraryMode() was called
    macos_legacy,                \* get_macos_version() < (10, 16)
    ph_authorization,            \* the native authorization statuses
    libraries,                   \* the PhotoLibrary objects constructed so far
    fs_dirs,                     \* library paths that exist as directories
    last_call,                   \* the most recent call and what it observed
    \* ---- asset.py, album.py, photolibrary.py: one blocking call on the bridge
    call,                        \* the blocking call in progress
    pc,                          \* where the calling thread is
    native,                      \* where the native callback thread is
    event,                       \* threading.Event() of the call: is it set
    completion,                  \* what the native layer passed to completion_handler
    exc,                         \* the exception raised, and the thread it was raised in
    requestdata,                 \* the record the result handler writes into
    delivered,                   \* the values the native layer passed to the handler
    result,                      \* what the blocking call returned
    placeholder,                 \* album_uuid / asset_uuid captured by the change block
    phasset,                     \* PhotoAsset._phasset: the cached native handle
    store,                       \* the Photos library as the native layer holds it
    prev,                        \* the previous call and how it ended
    ncalls,                      \* calls made so far
    \* ---- photolibrary.py: _asset_factory
    fetched,                     \* the native handle given to _asset_factory
    made,                        \* what _asset_factory made of it
    \* ---- asset.py: export and the data requests under it
    export_args,                 \* the call: the asset it is made on and its arguments
    export_run,                  \* how the call ran: the native calls it made, how it ended
    \* ---- utils.py, asset.py: the files export writes into dest
    dest_dir,                    \* the files of dest: each a name and the export that wrote it
    last_write,                  \* the most recent export and the file it wrote
    nexports,                    \* exports made so far
    \* ---- photolibrary.py: fetches, delete_assets, add_photo, album
    photolib,                    \* the assets and albums the native library holds
    lib_call,                    \* the most recent call on the PhotoLibrary
    lib_run,                     \* how it ran: what it did, how it ended
    \* ---- photolibrary.py: request_authorization
    os_legacy,                   \* get_macos_version() < (10, 16)
    ph_status,                   \* the native PHAuthorizationStatus values
    auth_call,                   \* the most recent request_authorization call
    \* ---- changeobserver.py: the change observer
    observer,                    \* the ChangeObserver object and its registration
    watched,                     \* the assets of the library the observer watches
    snapshot,                    \* the assets as of the last notification handled
    pending,                     \* notifications waiting for the run loop
    notify,                      \* notifications handled and callbacks made
    \* ---- asset.py, photokit.py: requestLivePhotoResources
    live_call,                   \* the request in progress: the class it is made on
    live_pc,                     \* where the requesting thread is
    nc_observers,                \* observers registered with NSNotificationCenter.defaultCenter()
    live_photo,                  \* self.live_photo
    live_native,                 \* the result callbacks the native layer has made
    stopper,                     \* the run loop stopper of AppHelper.runConsoleEventLoop
    live_end,                    \* how the request ended and the live photo it read
    \* ---- asset.py: _SlowMoVideoExporter.exportSlowMoVideo
    session_status,              \* exporter.status() of the AVAssetExportSession
    slowmo_pc,                   \* where the exporting thread is
    slowmo_status,               \* status as last read by the loop
    slowmo_slept,                \* milliseconds slept in the loop
    slowmo_exports,              \* exports started so far
    \* ---- photolibrary.py: PhotoLibrary() and enable_multi_library_mode() on several threads
    threads,                     \* each thread: the call it is in and where it is in it
    ever_switched,               \* _global_single_library_mode has been set to False
    \* ---- asset.py, utils.py: exports with overwrite=False on several threads
    race_dir,                    \* the files of dest: each a name and the export that wrote it
    exporters                    \* each exporting thread: where it is, the path it chose, what it wrote

modeVars == << _global_single_library_mode, native_multi_library_mode, macos_legacy,
               ph_authorization, libraries, fs_dirs, last_call >>

bridgeVars == << call, pc, native, event, completion, exc, requestdata, delivered,
                 result, placeholder, phasset, store, prev, ncalls >>

factoryVars == << fetched, made >>

exportVars == << export_args, export_run >>

filesVars == << dest_dir, last_write, nexports >>

libVars == << photolib, lib_call, lib_run >>

authVars == << os_legacy, ph_status, auth_call >>

observerVars == << observer, watched, snapshot, pending, notify >>

liveVars == << live_call, live_pc, nc_observers, live_photo, live_native, stopper, live_end >>

slowmoVars == << session_status, slowmo_pc, slowmo_status, slowmo_slept, slowmo_exports >>

threadVars == << threads, ever_switched >>

raceVars == << race_dir, exporters >>

vars == << modeVars, bridgeVars, factoryVars, exportVars, filesVars, libVars,
           authVars, observerVars,
           liveVars,
           slowmoVars,
           threadVars,
           raceVars >>

notModeVars == << bridgeVars, factoryVars, exportVars, filesVars, libVars,
                  authVars, observerVars,
                  liveVars,
                  slowmoVars,
                  threadVars,
                  raceVars >>
notBridgeVars == << modeVars, factoryVars, exportVars, filesVars, libVars,
                  authVars, observerVars,
                  liveVars,
                  slowmoVars,
                  threadVars,
                  raceVars >>
notFactoryVars == << modeVars, bridgeVars, exportVars, filesVars, libVars,
                  authVars, observerVars,
                  liveVars,
                  slowmoVars,
                  threadVars,
                  raceVars >>
notExportVars == << modeVars, bridgeVars, factoryVars, filesVars, libVars,
                  authVars, observerVars,
                  liveVars,
                  slowmoVars,
                  threadVars,
                  raceVars >>
notFilesVars == << modeVars, bridgeVars, factoryVars, exportVars, libVars,
                  authVars, observerVars,
                  liveVars,
                  slowmoVars,
                  threadVars,
                  raceVars >>
notLibVars == << modeVars, bridgeVars, factoryVars, exportVars, filesVars,
                  authVars, observerVars,
                  liveVars,
                  slowmoVars,
                  threadVars,
                  raceVars >>
notAuthVars == << modeVars, bridgeVars, factoryVars, exportVars, filesVars, libVars,
                  observerVars,
                  liveVars,
                  slowmoVars,
                  threadVars,
                  raceVars >>
notObserverVars == << modeVars, bridgeVars, factoryVars, exportVars, filesVars, libVars,
                      authVars,
                  liveVars,
                  slowmoVars,
                  threadVars,
                  raceVars >>
notLiveVars == << modeVars, bridgeVars, factoryVars, exportVars,
                  filesVars, libVars, authVars, observerVars,
                  slowmoVars,
                  threadVars,
                  raceVars >>
notSlowMoVars == << modeVars, bridgeVars, factoryVars, exportVars,
                  filesVars, libVars, authVars, observerVars,
                  liveVars,
                  threadVars,
                  raceVars >>
notThreadVars == << modeVars, bridgeVars, factoryVars, exportVars,
                  filesVars, libVars, authVars, observerVars,
                  liveVars, slowmoVars,
                  raceVars >>
notModeThreadVars == << bridgeVars, factoryVars, exportVars,
                  filesVars, libVars, authVars, observerVars,
                  liveVars, slowmoVars,
                  raceVars >>
notRaceVars == << modeVars, bridgeVars, factoryVars, exportVars,
                  filesVars, libVars, authVars, observerVars,
                  liveVars, slowmoVars, threadVars >>

(***************************************************************************)
(* Bounds of the model.                                                    *)
(***************************************************************************)
NumPaths == 2
MaxLibraries == 2
MaxCalls == 2
NumAssets == 2
NumAlbums == 2
NumPayloads == 2
MaxChunks == 2
MaxMediaType == 3
SubtypeBits == 5
MaxVersion == 3
MaxExports == 3
MaxAuthStatus == 4
NumWatched == 2
MaxRevision == 2
MaxPending == 2
MaxNotifications == 3
MaxLiveCalls == 3
MaxDegraded == 2
MaxExportStatus == 5
MaxPolls == 3
MaxSlowMoExports == 2
NumThreads == 2
MaxThreadCalls == 2
NumExporters == 2
MaxRaceExports == 1

(***************************************************************************)
(* The state of each subsystem while another one is being explored.        *)
(***************************************************************************)
\* asset.py: the subject of the blocking calls is one PhotoAsset
TheAsset == 1
\* the property setters of PhotoAsset that end in _perform_changes
Setters == {"date", "date_modified", "date_added", "timezone", "timezone_offset",
            "location", "favorite", "keywords"}

NoCall == [op |-> "none", attr |-> "none", value |-> FALSE, album |-> 0, asset |-> 0]
NoCompletion == [invoked |-> FALSE, success |-> FALSE, error |-> FALSE]
NoExc == [type |-> "none", thread |-> "none"]
NoPrev == [op |-> "none", attr |-> "none", value |-> FALSE, outcome |-> "none"]

ModeIdle ==
    /\ _global_single_library_mode = TRUE
    /\ native_multi_library_mode = FALSE
    /\ macos_legacy = FALSE
    /\ ph_authorization = [legacy |-> FALSE, read_write |-> TRUE, add_only |-> TRUE]
    /\ libraries = << [path |-> 1, shared |-> TRUE] >>
    /\ fs_dirs = {1}
    /\ last_call = [op |-> "PhotoLibrary", arg |-> 0, result |-> "none",
                    pre_single |-> TRUE, pre_authorized |-> TRUE,
                    pre_nlibs |-> 0, pre_isdir |-> FALSE]

\* library mode after PhotoLibrary(library_path) alone: multi-library mode
ModeMultiLibrary ==
    /\ _global_single_library_mode = FALSE
    /\ native_multi_library_mode = TRUE
    /\ macos_legacy = FALSE
    /\ ph_authorization = [legacy |-> FALSE, read_write |-> TRUE, add_only |-> TRUE]
    /\ libraries = << [path |-> 2, shared |-> FALSE] >>
    /\ fs_dirs = {1, 2}
    /\ last_call = [op |-> "PhotoLibrary", arg |-> 2, result |-> "none",
                    pre_single |-> TRUE, pre_authorized |-> TRUE,
                    pre_nlibs |-> 0, pre_isdir |-> TRUE]

BridgeIdle ==
    /\ call = NoCall
    /\ pc = "idle"
    /\ native = "idle"
    /\ event = FALSE
    /\ completion = NoCompletion
    /\ exc = NoExc
    /\ requestdata = << >>
    /\ delivered = << >>
    /\ result = << >>
    /\ placeholder = 0
    /\ phasset = [attrs |-> [a \in Setters |-> FALSE], fresh |-> FALSE]
    /\ store = [attrs |-> [a \in Setters |-> FALSE], assets |-> {TheAsset},
                albums |-> {1}, members |-> {}]
    /\ prev = NoPrev
    /\ ncalls = 0

NoFetched == [is_phasset |-> TRUE, uuid |-> TheAsset, mediaType |-> 0, mediaSubtypes |-> 0]
NoMade == [called |-> FALSE, class |-> "none", exc |-> "none"]

FactoryIdle ==
    /\ fetched = NoFetched
    /\ made = NoMade

NoExportArgs == [op |-> "none", cls |-> "none", media_type |-> 0, slow_mo |-> FALSE,
                 version |-> 0, raw |-> FALSE, photo |-> TRUE, video |-> TRUE,
                 dest_is_dir |-> TRUE, filename_given |-> FALSE]
NoExportRun == [done |-> FALSE, exc |-> "none", why |-> "none", trace |-> << >>]

ExportIdle ==
    /\ export_args = NoExportArgs
    /\ export_run = NoExportRun

NoWrite == [overwrite |-> TRUE, output_file |-> << >>, path |-> << >>,
            existed |-> FALSE, kept |-> TRUE]

FilesIdle ==
    /\ dest_dir = {}
    /\ last_write = NoWrite
    /\ nexports = 0

\* None passed (or left) as an identifier or a title
NoneId == [uuid |-> 0, rest |-> "None"]
NoneTitle == "<None>"

NoLibCall == [op |-> "none", uuids |-> << >>, uuids_is_none |-> TRUE, uuid |-> NoneId,
              title |-> NoneTitle, is_file |-> FALSE, committed |-> FALSE]
NoLibRun == [exc |-> "none", value |-> << >>, trace |-> << >>, multi |-> FALSE,
             before |-> [assets |-> {}, audio |-> {}, deleted |-> {}, albums |-> {}]]

LibIdle ==
    /\ photolib = [assets |-> {TheAsset}, audio |-> {}, deleted |-> {}, albums |-> {}]
    /\ lib_call = NoLibCall
    /\ lib_run = NoLibRun

\* Photos.PHAuthorizationStatusAuthorized
PHAuthorizationStatusAuthorized == 3
\* constants.py: the access levels of request_authorization
PHAccessLevelAddOnly == 1
PHAccessLevelReadWrite == 2

NoAuthCall == [access_level |-> PHAccessLevelReadWrite, value |-> FALSE,
               requests |-> 0, done |-> FALSE]

AuthIdle ==
    /\ os_legacy = FALSE
    /\ ph_status = [legacy |-> 0, read_write |-> PHAuthorizationStatusAuthorized,
                    add_only |-> PHAuthorizationStatusAuthorized]
    /\ auth_call = NoAuthCall

\* no ChangeObserver constructed yet
NoObserver == [constructed |-> FALSE, state |-> "none", registrations |-> 0,
               started |-> FALSE, stopped |-> FALSE]

NoChanges == [added |-> {}, removed |-> {}, updated |-> {}, state |-> "none"]

ObserverIdle ==
    /\ observer = NoObserver
    /\ watched = [a \in 1..NumWatched |-> 0]
    /\ snapshot = [a \in 1..NumWatched |-> 0]
    /\ pending = 0
    /\ notify = [handled |-> 0, callbacks |-> 0, last |-> NoChanges]

NoLiveCall == [impl |-> "none", observers_before |-> 0, ncalls |-> 0]
NoLiveNative == [degraded |-> 0, final |-> FALSE, early |-> FALSE]
NoLiveEnd == [how |-> "none", read |-> "none", exc |-> "none"]

LiveIdle ==
    /\ live_call = NoLiveCall
    /\ live_pc = "idle"
    /\ nc_observers = 0
    /\ live_photo = "None"
    /\ live_native = NoLiveNative
    /\ stopper = "none"
    /\ live_end = NoLiveEnd

SlowMoIdle ==
    /\ session_status = 0
    /\ slowmo_pc = "idle"
    /\ slowmo_status = 0
    /\ slowmo_slept = 0
    /\ slowmo_exports = 0

NoThreadCall == [op |-> "none", pc |-> "idle", result |-> "none",
                 after_switch |-> FALSE, ncalls |-> 0]

ThreadIdle ==
    /\ threads = [t \in 1..NumThreads |-> NoThreadCall]
    /\ ever_switched = FALSE

NoExporter == [pc |-> "idle", output_file |-> << >>, path |-> << >>,
               seen |-> {}, replaced |-> << 0, 0 >>, nexports |-> 0]

RaceIdle ==
    /\ race_dir = {}
    /\ exporters = [t \in 1..NumExporters |-> NoExporter]

(***************************************************************************)
(* photolibrary.py: library mode                                           *)
(***************************************************************************)
\* library_path=None (or any falsy path) of PhotoLibrary.__init__
NoPath == 0
\* PhotoLibrary.system_photo_library_path()
SystemLibraryPath == 1
Paths == 1..NumPaths

\* PhotoLibrary.authorization_status(): (read_write, add_only)
authorization_status ==
    IF macos_legacy
    THEN IF ph_authorization.legacy THEN <<TRUE, TRUE>> ELSE <<FALSE, FALSE>>
    ELSE <<ph_authorization.read_write, ph_authorization.add_only>>

Authorized == authorization_status[1] \/ authorization_status[2]

\* PhotoLibrary.multi_library_mode()
multi_library_mode == ~_global_single_library_mode

\* The mode check of __init__ with the guard dropped: a default-mode
\* construction after multi-library mode silently resets the flag.
PhotoLibrary_init_unguarded(library_path, single, switched, libs) ==
    IF ~Authorized
    THEN [exc |-> "PhotoKitAuthError", single |-> single, native |-> switched, libs |-> libs]
    ELSE IF library_path = NoPath
    THEN [exc |-> "none", single |-> TRUE, native |-> switched,
          libs |-> Append(libs, [path |-> SystemLibraryPath, shared |-> TRUE])]
    ELSE [exc |-> "none", single |-> FALSE, native |-> TRUE,
          libs |-> Append(libs, [path |-> library_path, shared |-> FALSE])]

\* __init__ with the mode decision taken ahead of the authorization check:
\* an unauthorized construction with a path still throws the switch.
PhotoLibrary_init_mode_first(library_path, single, switched, libs) ==
    IF library_path # NoPath /\ ~Authorized
    THEN [exc |-> "PhotoKitAuthError", single |-> FALSE, native |-> TRUE, libs |-> libs]
    ELSE IF ~Authorized
    THEN [exc |-> "PhotoKitAuthError", single |-> single, native |-> switched, libs |-> libs]
    ELSE IF library_path = NoPath
    THEN IF ~single
         THEN [exc |-> "PhotoKitError", single |-> single, native |-> switched, libs |-> libs]
         ELSE [exc |-> "none", single |-> TRUE, native |-> switched,
               libs |-> Append(libs, [path |-> SystemLibraryPath, shared |-> TRUE])]
    ELSE [exc |-> "none", single |-> FALSE, native |-> TRUE,
          libs |-> Append(libs, [path |-> library_path, shared |-> FALSE])]

\* PhotoLibrary.__init__(library_path) as a function of the state it reads:
\* the exception it raises ("none" when it returns), the flag, whether the
\* native multi-library switch has been thrown, and the constructed handles.
PhotoLibrary_init(library_path, single, switched, libs) ==
    IF ~Authorized
    THEN [exc |-> "PhotoKitAuthError", single |-> single, native |-> switched, libs |-> libs]
    ELSE IF library_path = NoPath
    THEN IF ~single
         THEN [exc |-> "PhotoKitError", single |-> single, native |-> switched, libs |-> libs]
         ELSE [exc |-> "none", single |-> TRUE, native |-> switched,
               libs |-> Append(libs, [path |-> SystemLibraryPath, shared |-> TRUE])]
    ELSE [exc |-> "none", single |-> FALSE, native |-> TRUE,
          libs |-> Append(libs, [path |-> library_path, shared |-> FALSE])]

\* What a call observed when it started, and how it ended.
Observed(op, arg, res) ==
    [op |-> op, arg |-> arg, result |-> res,
     pre_single |-> _global_single_library_mode,
     pre_authorized |-> Authorized,
     pre_nlibs |-> Len(libraries),
     pre_isdir |-> (arg \in fs_dirs)]

\* PhotoLibrary(library_path)
PhotoLibraryNew(library_path) ==
    LET r == PhotoLibrary_init(library_path, _global_single_library_mode,
                               native_multi_library_mode, libraries) IN
    /\ Len(r.libs) <= MaxLibraries
    /\ _global_single_library_mode' = r.single
    /\ native_multi_library_mode' = r.native
    /\ libraries' = r.libs
    /\ last_call' = Observed("PhotoLibrary", library_path, r.exc)
    /\ UNCHANGED << macos_legacy, ph_authorization, fs_dirs >>
    /\ UNCHANGED notModeVars

\* PhotoLibrary.enable_multi_library_mode()
enable_multi_library_mode ==
    /\ native_multi_library_mode' = TRUE
    /\ _global_single_library_mode' = FALSE
    /\ last_call' = Observed("enable_multi_library_mode", NoPath, "none")
    /\ UNCHANGED << macos_legacy, ph_authorization, libraries, fs_dirs >>
    /\ UNCHANGED notModeVars

\* PhotoLibrary.multi_library_mode() called and its answer recorded
MultiLibraryModeQuery ==
    /\ last_call' = Observed("multi_library_mode", NoPath,
                             IF multi_library_mode THEN "True" ELSE "False")
    /\ UNCHANGED << _global_single_library_mode, native_multi_library_mode,
                    macos_legacy, ph_authorization, libraries, fs_dirs >>
    /\ UNCHANGED notModeVars

\* create_library with enable_multi_library_mode() called ahead of the
\* is_dir() check.
create_library_enables_first(library_path, created) ==
    /\ UNCHANGED notModeVars
    /\ IF library_path \in fs_dirs
       THEN /\ created
            /\ _global_single_library_mode' = FALSE
            /\ native_multi_library_mode' = TRUE
            /\ last_call' = Observed("create_library", library_path, "FileExistsError")
            /\ UNCHANGED << macos_legacy, ph_authorization, libraries, fs_dirs >>
       ELSE IF created
       THEN LET r == PhotoLibrary_init(library_path, FALSE, TRUE, libraries) IN
            /\ Len(r.libs) <= MaxLibraries
            /\ _global_single_library_mode' = r.single
            /\ native_multi_library_mode' = r.native
            /\ libraries' = r.libs
            /\ fs_dirs' = fs_dirs \cup {library_path}
            /\ last_call' = Observed("create_library", library_path, r.exc)
            /\ UNCHANGED << macos_legacy, ph_authorization >>
       ELSE /\ _global_single_library_mode' = FALSE
            /\ native_multi_library_mode' = TRUE
            /\ last_call' = Observed("create_library", library_path,
                                     "PhotoKitCreateLibraryError")
            /\ UNCHANGED << macos_legacy, ph_authorization, libraries, fs_dirs >>

\* PhotoLibrary.create_library(library_path); created is the answer of the
\* native createPhotoLibraryUsingOptions_error_
create_library(library_path, created) ==
    /\ UNCHANGED notModeVars
    /\ IF library_path \in fs_dirs
       THEN /\ created
            /\ last_call' = Observed("create_library", library_path, "FileExistsError")
            /\ UNCHANGED << _global_single_library_mode, native_multi_library_mode,
                            macos_legacy, ph_authorization, libraries, fs_dirs >>
       ELSE IF created
       THEN LET r == PhotoLibrary_init(library_path, FALSE, TRUE, libraries) IN
            /\ Len(r.libs) <= MaxLibraries
            /\ _global_single_library_mode' = r.single
            /\ native_multi_library_mode' = r.native
            /\ libraries' = r.libs
            /\ fs_dirs' = fs_dirs \cup {library_path}
            /\ last_call' = Observed("create_library", library_path, r.exc)
            /\ UNCHANGED << macos_legacy, ph_authorization >>
       ELSE /\ _global_single_library_mode' = FALSE
            /\ native_multi_library_mode' = TRUE
            /\ last_call' = Observed("create_library", library_path,
                                     "PhotoKitCreateLibraryError")
            /\ UNCHANGED << macos_legacy, ph_authorization, libraries, fs_dirs >>

\* The user grants or revokes access in the system's privacy settings.
AuthorizationChanged(legacy, read_write, add_only) ==
    /\ IF macos_legacy THEN ~read_write /\ ~add_only ELSE ~legacy
    /\ ph_authorization' = [legacy |-> legacy, read_write |-> read_write,
                            add_only |-> add_only]
    /\ ph_authorization' # ph_authorization
    /\ UNCHANGED << _global_single_library_mode, native_multi_library_mode,
                    macos_legacy, libraries, fs_dirs, last_call >>
    /\ UNCHANGED notModeVars

InitMode ==
    /\ RaceIdle
    /\ ThreadIdle
    /\ SlowMoIdle
    /\ LiveIdle
    /\ AuthIdle
    /\ ObserverIdle
    /\ LibIdle
    /\ FilesIdle
    /\ FactoryIdle
    /\ ExportIdle
    /\ _global_single_library_mode = TRUE
    /\ native_multi_library_mode = FALSE
    /\ macos_legacy \in BOOLEAN
    /\ ph_authorization \in [legacy : BOOLEAN, read_write : BOOLEAN, add_only : BOOLEAN]
    /\ IF macos_legacy
       THEN ~ph_authorization.read_write /\ ~ph_authorization.add_only
       ELSE ~ph_authorization.legacy
    /\ libraries = << >>
    /\ fs_dirs \in {d \in SUBSET Paths : SystemLibraryPath \in d}
    /\ last_call = [op |-> "none", arg |-> NoPath, result |-> "none",
                    pre_single |-> TRUE, pre_authorized |-> FALSE,
                    pre_nlibs |-> 0, pre_isdir |-> FALSE]
    /\ BridgeIdle

NextMode ==
    \/ \E p \in {NoPath} \cup Paths : PhotoLibraryNew(p)
    \/ enable_multi_library_mode
    \/ MultiLibraryModeQuery
    \/ \E p \in Paths, created \in BOOLEAN : create_library(p, created)
    \/ \E l, rw, ao \in BOOLEAN : AuthorizationChanged(l, rw, ao)

SpecMode == InitMode /\ [][NextMode]_vars

(***************************************************************************)
(* Claims about the library mode                                           *)
(***************************************************************************)
\* C1: the mode flag starts in default (single-library) mode and is a
\* one-way latch: PhotoLibrary(library_path), enable_multi_library_mode()
\* and create_library() past its existence check leave it in multi-library
\* mode, no later call (succeeding or failing) returns it to default mode,
\* and multi_library_mode() answers True whenever it is called after the
\* switch.
C1_ModeFlagIsOneWayLatch ==
    /\ _global_single_library_mode = TRUE
    /\ [][ /\ (~_global_single_library_mode => ~_global_single_library_mode')
           /\ (last_call' # last_call =>
                /\ (last_call'.op = "enable_multi_library_mode"
                        => ~_global_single_library_mode')
                /\ (last_call'.op = "create_library"
                    /\ last_call'.result # "FileExistsError"
                        => ~_global_single_library_mode')
                /\ (last_call'.op = "PhotoLibrary" /\ last_call'.arg # NoPath
                    /\ last_call'.result = "none"
                        => ~_global_single_library_mode')
                /\ (last_call'.op = "multi_library_mode" /\ ~last_call'.pre_single
                        => last_call'.result = "True")) ]_vars

\* C1 witness: after the switch a default-mode construction has failed and
\* the flag is still in multi-library mode.
C1_Witness ==
    /\ ~_global_single_library_mode
    /\ last_call.op = "PhotoLibrary"
    /\ last_call.arg = NoPath
    /\ last_call.result = "PhotoKitError"
    /\ ~last_call.pre_single

\* C2: with authorization granted, a PhotoLibrary() call without a path made
\* after the process has switched to multi-library mode raises PhotoKitError
\* and constructs no library handle.
C2_DefaultModeAfterSwitchRaises ==
    (/\ last_call.op = "PhotoLibrary"
     /\ last_call.arg = NoPath
     /\ ~last_call.pre_single
     /\ last_call.pre_authorized)
        => /\ last_call.result = "PhotoKitError"
           /\ Len(libraries) = last_call.pre_nlibs

\* C2 witness: such a call has been made while a library constructed with
\* an explicit path exists.
C2_Witness ==
    /\ last_call.op = "PhotoLibrary"
    /\ last_call.arg = NoPath
    /\ ~last_call.pre_single
    /\ last_call.pre_authorized
    /\ \E i \in 1..Len(libraries) : ~libraries[i].shared

\* C16: PhotoLibrary(library_path) raises PhotoKitAuthError exactly when
\* neither read-write nor add-only access is authorized at the time of the
\* call, and a construction that fails this way changes neither the mode
\* flag, nor the native multi-library switch, nor the constructed handles,
\* with or without a library_path.
C16_AuthCheckPrecedesModeDecision ==
    [][ (last_call' # last_call /\ last_call'.op = "PhotoLibrary") =>
           /\ (last_call'.result = "PhotoKitAuthError"
                 <=> ~(IF macos_legacy THEN ph_authorization.legacy
                       ELSE ph_authorization.read_write \/ ph_authorization.add_only))
           /\ (last_call'.result = "PhotoKitAuthError"
                 => UNCHANGED << _global_single_library_mode,
                                 native_multi_library_mode, libraries >>) ]_vars

\* C16 witness: a construction with a library_path has failed the
\* authorization check and the process is still in default mode.
C16_Witness ==
    /\ last_call.op = "PhotoLibrary"
    /\ last_call.arg # NoPath
    /\ last_call.result = "PhotoKitAuthError"
    /\ ~last_call.pre_authorized
    /\ _global_single_library_mode
    /\ ~native_multi_library_mode

\* C17: create_library(path) on a path that is already a directory raises
\* FileExistsError and changes nothing: the mode flag and the native
\* multi-library switch stay as they were, no library is created on disk and
\* no handle is constructed.
C17_CreateLibraryExistingDirectory ==
    [][ (last_call' # last_call /\ last_call'.op = "create_library"
         /\ last_call'.arg \in fs_dirs) =>
           /\ last_call'.result = "FileExistsError"
           /\ UNCHANGED << _global_single_library_mode, native_multi_library_mode,
                           libraries, fs_dirs >> ]_vars

\* C17 witness: create_library has been refused on an existing directory
\* while the process was, and still is, in default mode.
C17_Witness ==
    /\ last_call.op = "create_library"
    /\ last_call.pre_isdir
    /\ last_call.result = "FileExistsError"
    /\ last_call.pre_single
    /\ _global_single_library_mode
    /\ ~native_multi_library_mode

(***************************************************************************)
(* asset.py, album.py, photolibrary.py: the completion bridge.             *)
(* A blocking call creates a threading.Event, hands a handler to the       *)
(* native layer, and blocks in event.wait(); the native layer runs the     *)
(* handler on a thread of its own.                                         *)
(***************************************************************************)
\* the calls that go through performChanges_completionHandler_
Mutations == {"set_attribute", "create_album", "delete_album", "add_assets",
              "remove_assets", "add_photo"}
\* the calls that go through a PHImageManager / PHAssetResourceManager request
Requests == {"request_image", "request_video", "request_resource"}

\* the attributes of ImageData that handler() assigns, in its order
ImageDataFields == << "metadata", "uti", "orientation", "info", "image_data" >>
\* the attributes of AVAssetData that handler() assigns, in its order
AVAssetDataFields == << "asset", "audiomix", "info" >>

\* ImageData() / AVAssetData() / PHAssetResourceData() before any callback
NewRequestData(op) ==
    CASE op = "request_image" -> [i \in 1..Len(ImageDataFields) |-> 0]
      [] op = "request_video" -> [i \in 1..Len(AVAssetDataFields) |-> 0]
      [] OTHER -> << >>

\* the typed error each completion_handler raises
TypedError(op) ==
    CASE op = "set_attribute" -> "PhotoKitChangeError"
      [] op = "create_album" -> "PhotoKitAlbumCreateError"
      [] op = "delete_album" -> "PhotoKitAlbumDeleteError"
      [] op \in {"add_assets", "remove_assets"} -> "PhotoKitAlbumAddAssetError"
      [] op = "add_photo" -> "PhotoKitImportError"
      [] op = "request_resource" -> "PhotoKitExportError"
      [] OTHER -> "none"

\* completion_handler(success, error) of every mutation, and
\* completion_handler(error) of _request_resource_data (success = ~error):
\*     if error: raise <typed error>
\*     event.set()
completion_handler(success, error) ==
    IF error
    THEN [raises |-> TRUE, sets_event |-> FALSE]
    ELSE [raises |-> FALSE, sets_event |-> TRUE]

\* an event.wait() that does not block
event_wait_returns_at_once == TRUE

\* event.wait(): the caller goes on only once the event is set
event_wait == event

\* PhotoAsset._refresh(): self._phasset = self._library.asset(self.uuid)._phasset;
\* signalled tells whether the completion of the call in progress had been
\* signalled when the fetch was issued
refresh(signalled) ==
    IF TheAsset \in store.assets
    THEN [exc |-> "none", phasset |-> [attrs |-> store.attrs, fresh |-> signalled]]
    ELSE [exc |-> "PhotoKitFetchFailed", phasset |-> phasset]

\* the smallest identifier the library does not use yet; 0 when there is none
FreeId(used, n) ==
    IF \E i \in 1..n : i \notin used
    THEN CHOOSE i \in 1..n : i \notin used /\ \A j \in 1..(i - 1) : j \in used
    ELSE 0

\* the change block of each mutation, applied to the library
ApplyChanges(c, new_id) ==
    CASE c.op = "set_attribute" ->
            [store EXCEPT !.attrs = [@ EXCEPT ![c.attr] = c.value]]
      [] c.op = "create_album" -> [store EXCEPT !.albums = @ \cup {new_id}]
      [] c.op = "delete_album" ->
            [store EXCEPT !.albums = @ \ {c.album},
                          !.members = {m \in @ : m[1] # c.album}]
      [] c.op = "add_assets" -> [store EXCEPT !.members = @ \cup {<<c.album, c.asset>>}]
      [] c.op = "remove_assets" -> [store EXCEPT !.members = @ \ {<<c.album, c.asset>>}]
      [] c.op = "add_photo" -> [store EXCEPT !.assets = @ \cup {new_id}]
      [] OTHER -> store

\* the calls a caller can make, with their arguments
Calls ==
    { [op |-> "set_attribute", attr |-> a, value |-> v, album |-> 0, asset |-> TheAsset] :
        a \in Setters, v \in BOOLEAN }
    \cup { [op |-> o, attr |-> "none", value |-> FALSE, album |-> 0, asset |-> TheAsset] :
        o \in Requests \cup {"get_favorite"} }
    \cup { [op |-> o, attr |-> "none", value |-> FALSE, album |-> 0, asset |-> 0] :
        o \in {"create_album", "add_photo"} }
    \cup { [op |-> "delete_album", attr |-> "none", value |-> FALSE, album |-> b, asset |-> 0] :
        b \in 1..NumAlbums }
    \cup { [op |-> o, attr |-> "none", value |-> FALSE, album |-> b, asset |-> s] :
        o \in {"add_assets", "remove_assets"}, b \in 1..NumAlbums, s \in 1..NumAssets }

\* the caller starts call c: what every call does first
Begin(c) ==
    /\ pc \in {"idle", "returned", "raised"}
    /\ ncalls < MaxCalls
    /\ ncalls' = ncalls + 1
    /\ prev' = [op |-> call.op, attr |-> call.attr, value |-> call.value, outcome |-> pc]
    /\ call' = c
    /\ event' = FALSE
    /\ completion' = NoCompletion
    /\ delivered' = << >>
    /\ placeholder' = 0
    /\ requestdata' = NewRequestData(c.op)
    /\ UNCHANGED store

\* the caller has handed its handler to the native layer and reached event.wait()
Submitted ==
    /\ pc' = "waiting"
    /\ native' = "pending"
    /\ exc' = NoExc
    /\ result' = << >>

\* the call ended before anything was handed to the native layer
EndedEarly(exception, value) ==
    /\ pc' = IF exception = "none" THEN "returned" ELSE "raised"
    /\ native' = "idle"
    /\ exc' = IF exception = "none" THEN NoExc
              ELSE [type |-> exception, thread |-> "caller"]
    /\ result' = value

\* PhotoAsset.<attr> = value for the setters that end in _perform_changes.
\* favorite first reads self.favorite (which refreshes) and returns when it
\* already has the value; timezone raises ValueError for an unknown name.
SetAttribute(c, tz_known) ==
    /\ c.op = "set_attribute"
    /\ Begin(c)
    /\ (c.attr # "timezone" => tz_known)
    /\ IF c.attr = "favorite"
       THEN LET r == refresh(FALSE) IN
            IF r.exc # "none"
            THEN EndedEarly(r.exc, << >>) /\ UNCHANGED phasset
            ELSE IF r.phasset.attrs["favorite"] = c.value
            THEN EndedEarly("none", << >>) /\ phasset' = r.phasset
            ELSE Submitted /\ phasset' = r.phasset
       ELSE IF c.attr = "timezone" /\ ~tz_known
       THEN EndedEarly("ValueError", << >>) /\ UNCHANGED phasset
       ELSE Submitted /\ phasset' = [phasset EXCEPT !.fresh = FALSE]
    /\ UNCHANGED notBridgeVars

\* PhotoAsset.favorite read: refresh, then isFavorite() of the cached handle
GetFavorite(c) ==
    /\ c.op = "get_favorite"
    /\ Begin(c)
    /\ LET r == refresh(FALSE) IN
       /\ phasset' = r.phasset
       /\ EndedEarly(r.exc, IF r.exc = "none" THEN << r.phasset.attrs["favorite"] >>
                            ELSE << >>)
    /\ UNCHANGED notBridgeVars

\* create_album, delete_album, Album.add_assets, Album.remove_assets, add_photo,
\* _request_image_data, _request_video_data, _request_resource_data up to
\* event.wait()
SubmitCall(c) ==
    /\ c.op \in (Mutations \cup Requests) \ {"set_attribute"}
    /\ c.op = "create_album" => FreeId(store.albums, NumAlbums) # 0
    /\ c.op = "add_photo" => FreeId(store.assets, NumAssets) # 0
    /\ c.op \in {"delete_album", "add_assets", "remove_assets"} => c.album \in store.albums
    /\ c.op \in {"add_assets", "remove_assets"} => c.asset \in store.assets
    /\ Begin(c)
    /\ Submitted
    /\ UNCHANGED phasset
    /\ UNCHANGED notBridgeVars

\* the caller leaves event.wait() and runs the rest of the call
AfterWait ==
    /\ pc = "waiting"
    /\ event_wait
    /\ CASE call.op = "set_attribute" ->
              \* _perform_changes: self._refresh()
              LET r == refresh(event) IN
              /\ phasset' = r.phasset
              /\ pc' = IF r.exc = "none" THEN "returned" ELSE "raised"
              /\ exc' = IF r.exc = "none" THEN exc
                        ELSE [type |-> r.exc, thread |-> "caller"]
              /\ UNCHANGED result
         [] call.op = "create_album" ->
              \* return self.album(album_uuid)
              LET e == IF placeholder = 0 THEN "ValueError"
                       ELSE IF placeholder \in store.albums THEN "none"
                       ELSE "PhotoKitFetchFailed" IN
              /\ pc' = IF e = "none" THEN "returned" ELSE "raised"
              /\ exc' = IF e = "none" THEN exc ELSE [type |-> e, thread |-> "caller"]
              /\ result' = IF e = "none" THEN << placeholder >> ELSE << >>
              /\ UNCHANGED phasset
         [] call.op = "add_photo" ->
              \* return self.asset(asset_uuid)
              LET e == IF placeholder \in store.assets THEN "none"
                       ELSE "PhotoKitFetchFailed" IN
              /\ pc' = IF e = "none" THEN "returned" ELSE "raised"
              /\ exc' = IF e = "none" THEN exc ELSE [type |-> e, thread |-> "caller"]
              /\ result' = IF e = "none" THEN << placeholder >> ELSE << >>
              /\ UNCHANGED phasset
         [] call.op \in {"delete_album", "add_assets", "remove_assets"} ->
              /\ pc' = "returned"
              /\ UNCHANGED << exc, result, phasset >>
         [] call.op \in Requests ->
              \* data = copy.copy(requestdata); return data
              /\ pc' = "returned"
              /\ result' = requestdata
              /\ UNCHANGED << exc, phasset >>
    /\ UNCHANGED << call, native, event, completion, requestdata, delivered,
                    placeholder, store, prev, ncalls >>
    /\ UNCHANGED notBridgeVars

\* The native layer runs the change block of performChanges and commits or
\* refuses the transaction: outcome is "ok", "error" (refused, with an
\* NSError) or "refused" (success = False and no NSError).
NativePerformChanges(outcome) ==
    /\ native = "pending"
    /\ call.op \in Mutations
    /\ LET new_id == CASE call.op = "create_album" -> FreeId(store.albums, NumAlbums)
                       [] call.op = "add_photo" -> FreeId(store.assets, NumAssets)
                       [] OTHER -> 0 IN
       /\ placeholder' = new_id
       /\ store' = IF outcome = "ok" THEN ApplyChanges(call, new_id) ELSE store
    /\ completion' = [invoked |-> FALSE, success |-> (outcome = "ok"),
                      error |-> (outcome = "error")]
    /\ native' = "committed"
    /\ UNCHANGED << call, pc, event, exc, requestdata, delivered, result, phasset,
                    prev, ncalls >>
    /\ UNCHANGED notBridgeVars

\* The native layer calls completion_handler(success, error) on its thread.
NativeCompletion ==
    /\ native = "committed"
    /\ LET h == completion_handler(completion.success, completion.error) IN
       /\ completion' = [completion EXCEPT !.invoked = TRUE]
       /\ event' = (event \/ h.sets_event)
       /\ native' = IF h.raises THEN "raised" ELSE "completed"
       /\ exc' = IF h.raises THEN [type |-> TypedError(call.op), thread |-> "callback"]
                 ELSE exc
    /\ UNCHANGED << call, pc, requestdata, delivered, result, placeholder, phasset,
                    store, prev, ncalls >>
    /\ UNCHANGED notBridgeVars

\* The native layer calls the result handler of an image or video request
\* with payload p.
NativeResult(p) ==
    /\ native = "pending"
    /\ call.op \in {"request_image", "request_video"}
    /\ delivered' = [i \in 1..Len(requestdata) |-> p]
    /\ native' = "handling"
    /\ UNCHANGED << call, pc, event, completion, exc, requestdata, result, placeholder,
                    phasset, store, prev, ncalls >>
    /\ UNCHANGED notBridgeVars

\* handler(): the next assignment to an attribute of requestdata
HandlerAssigns ==
    /\ native = "handling"
    /\ call.op \in {"request_image", "request_video"}
    /\ \E i \in 1..Len(requestdata) :
         /\ requestdata[i] = 0
         /\ \A j \in 1..(i - 1) : requestdata[j] # 0
         /\ requestdata' = [requestdata EXCEPT ![i] = delivered[i]]
    /\ UNCHANGED << call, pc, native, event, completion, exc, delivered, result,
                    placeholder, phasset, store, prev, ncalls >>
    /\ UNCHANGED notBridgeVars

\* handler(): event.set(), its last statement
HandlerSetsEvent ==
    /\ native = "handling"
    /\ call.op \in {"request_image", "request_video"}
    /\ \A i \in 1..Len(requestdata) : requestdata[i] # 0
    /\ event' = TRUE
    /\ native' = "completed"
    /\ completion' = [invoked |-> TRUE, success |-> TRUE, error |-> FALSE]
    /\ UNCHANGED << call, pc, exc, requestdata, delivered, result, placeholder,
                    phasset, store, prev, ncalls >>
    /\ UNCHANGED notBridgeVars

\* a handler that keeps only the chunk it was just given
resource_handler_keeps_last(data, chunk) == << chunk >>

\* _request_resource_data.handler(data): requestdata.data += data
resource_handler(data, chunk) == Append(data, chunk)

\* _request_resource_data: handler(data) appends one chunk
NativeDataReceived(chunk) ==
    /\ native \in {"pending", "handling"}
    /\ call.op = "request_resource"
    /\ Len(delivered) < MaxChunks
    /\ delivered' = Append(delivered, chunk)
    /\ requestdata' = resource_handler(requestdata, chunk)
    /\ native' = "handling"
    /\ UNCHANGED << call, pc, event, completion, exc, result, placeholder, phasset,
                    store, prev, ncalls >>
    /\ UNCHANGED notBridgeVars

\* _request_resource_data: completion_handler(error)
NativeResourceCompletion(error) ==
    /\ native \in {"pending", "handling"}
    /\ call.op = "request_resource"
    /\ LET h == completion_handler(~error, error) IN
       /\ completion' = [invoked |-> TRUE, success |-> ~error, error |-> error]
       /\ event' = (event \/ h.sets_event)
       /\ native' = IF h.raises THEN "raised" ELSE "completed"
       /\ exc' = IF h.raises THEN [type |-> TypedError(call.op), thread |-> "callback"]
                 ELSE exc
    /\ UNCHANGED << call, pc, requestdata, delivered, result, placeholder, phasset,
                    store, prev, ncalls >>
    /\ UNCHANGED notBridgeVars

InitBridge ==
    /\ RaceIdle
    /\ ThreadIdle
    /\ SlowMoIdle
    /\ LiveIdle
    /\ AuthIdle
    /\ ObserverIdle
    /\ ModeIdle
    /\ LibIdle
    /\ FilesIdle
    /\ FactoryIdle
    /\ ExportIdle
    /\ call = NoCall
    /\ pc = "idle"
    /\ native = "idle"
    /\ event = FALSE
    /\ completion = NoCompletion
    /\ exc = NoExc
    /\ requestdata = << >>
    /\ delivered = << >>
    /\ result = << >>
    /\ placeholder = 0
    /\ \E f \in BOOLEAN :
         /\ store = [attrs |-> [a \in Setters |-> IF a = "favorite" THEN f ELSE FALSE],
                     assets |-> {TheAsset}, albums |-> {1}, members |-> {}]
         /\ phasset = [attrs |-> store.attrs, fresh |-> FALSE]
    /\ prev = NoPrev
    /\ ncalls = 0

NextBridge ==
    \/ \E c \in Calls, tz_known \in BOOLEAN : SetAttribute(c, tz_known)
    \/ \E c \in Calls : GetFavorite(c)
    \/ \E c \in Calls : SubmitCall(c)
    \/ AfterWait
    \/ \E outcome \in {"ok", "error", "refused"} : NativePerformChanges(outcome)
    \/ NativeCompletion
    \/ \E p \in 1..NumPayloads : NativeResult(p)
    \/ HandlerAssigns
    \/ HandlerSetsEvent
    \/ \E chunk \in 1..NumPayloads : NativeDataReceived(chunk)
    \/ \E error \in BOOLEAN : NativeResourceCompletion(error)

SpecBridge == InitBridge /\ [][NextBridge]_vars

(***************************************************************************)
(* Claims about the completion bridge                                      *)
(***************************************************************************)
\* C3: when the native layer has invoked the completion handler of a
\* blocking call with an error, the call ends by raising the operation's
\* typed error in the caller's thread: the error is not raised in any
\* other thread, and the caller has either raised it or is able to go on.
C3_CompletionErrorRaisedInCaller ==
    (completion.invoked /\ completion.error /\ TypedError(call.op) # "none")
        => /\ exc.thread # "callback"
           /\ \/ /\ pc = "raised"
                 /\ exc = [type |-> TypedError(call.op), thread |-> "caller"]
              \/ /\ pc = "waiting"
                 /\ ENABLED AfterWait

\* C4: a blocking request or mutation never returns to its caller before
\* the native completion callback has run to its end, and the record a
\* request returns holds exactly the values the callback was given.
C4_ReturnsOnlyAfterCallback ==
    (pc \in {"returned", "raised"} /\ native # "idle")
        => /\ native = "completed"
           /\ completion.invoked
           /\ (call.op \in Requests =>
                 /\ result = delivered
                 /\ (call.op = "request_image" => Len(result) = Len(ImageDataFields))
                 /\ (call.op = "request_video" => Len(result) = Len(AVAssetDataFields))
                 /\ (call.op # "request_resource" =>
                        \A i \in 1..Len(result) : result[i] # 0))

\* C4 witness: an image request has returned the record its handler filled.
C4_Witness ==
    /\ pc = "returned"
    /\ call.op = "request_image"
    /\ native = "completed"
    /\ result = delivered
    /\ Len(result) = Len(ImageDataFields)

\* C5: a blocking mutation returns normally only if the native completion
\* handler reported success.
C5_MutationReturnsOnlyOnSuccess ==
    (pc = "returned" /\ call.op \in Mutations /\ native # "idle")
        => completion.invoked /\ completion.success

\* The post-mutation refresh taken alone: when a setter that submitted a
\* transaction returns, the cached handle was fetched after the completion
\* was signalled and mirrors the library.
RefreshFollowsCompletion ==
    (pc = "returned" /\ call.op = "set_attribute" /\ native # "idle")
        => phasset.fresh /\ phasset.attrs = store.attrs

\* C6: after a setter that submitted a transaction returns, the cached
\* handle is the one fetched after the completion was signalled, and
\* reading favorite right after setting it to v returns v.
C6_SetThenReadFavorite ==
    /\ RefreshFollowsCompletion
    /\ (/\ pc = "returned"
        /\ call.op = "get_favorite"
        /\ prev.op = "set_attribute"
        /\ prev.attr = "favorite"
        /\ prev.outcome = "returned")
            => result = << prev.value >>

\* C12: when a resource-data request returns, it returns the chunks the
\* streaming handler was given before the completion, all of them and in
\* the order they arrived; when the completion reported an error, the
\* request returns nothing, whatever had been accumulated.
C12_ResourceDataIsAllChunksInOrder ==
    /\ (pc = "returned" /\ call.op = "request_resource")
          => /\ result = delivered
             /\ completion.invoked
             /\ ~completion.error
    /\ (call.op = "request_resource" /\ completion.invoked /\ completion.error)
          => /\ pc # "returned"
             /\ result = << >>

\* C12 witness: a resource request returned two different chunks in the
\* order they arrived.
C12_Witness ==
    /\ pc = "returned"
    /\ call.op = "request_resource"
    /\ delivered = << 2, 1 >>
    /\ result = << 2, 1 >>

\* C12, the failing completion: an error arrived after a chunk had been
\* accumulated, and nothing was returned.
C12_ErrorAfterChunk ==
    /\ call.op = "request_resource"
    /\ completion.invoked
    /\ completion.error
    /\ Len(requestdata) > 0
    /\ result = << >>

(***************************************************************************)
(* photolibrary.py: _asset_factory                                         *)
(***************************************************************************)
\* Photos.PHAssetMediaTypeUnknown / Image / Video / Audio
PHAssetMediaTypeUnknown == 0
PHAssetMediaTypeImage == 1
PHAssetMediaTypeVideo == 2
PHAssetMediaTypeAudio == 3
\* Photos.PHAssetMediaSubtypePhotoLive (1 << 3)
PHAssetMediaSubtypePhotoLive == 8

\* the values mediaType() and mediaSubtypes() take in the model
MediaTypes == 0..MaxMediaType
MediaSubtypes == 0..(2^SubtypeBits - 1)

\* a & b of two non-negative integers
RECURSIVE BitAnd(_, _)
BitAnd(a, b) ==
    IF a = 0 \/ b = 0 THEN 0
    ELSE (a % 2) * (b % 2) + 2 * BitAnd(a \div 2, b \div 2)

\* a factory that looks at the media type before the live flag
_asset_factory_type_first(is_phasset, media_type, media_subtypes) ==
    IF ~is_phasset THEN [class |-> "none", exc |-> "TypeError"]
    ELSE IF media_type = PHAssetMediaTypeImage
    THEN [class |-> "PhotoAsset", exc |-> "none"]
    ELSE IF media_type = PHAssetMediaTypeVideo
    THEN [class |-> "VideoAsset", exc |-> "none"]
    ELSE IF BitAnd(media_subtypes, PHAssetMediaSubtypePhotoLive) # 0
    THEN [class |-> "LivePhotoAsset", exc |-> "none"]
    ELSE [class |-> "none", exc |-> "PhotoKitMediaTypeError"]

\* PhotoLibrary._asset_factory(phasset): the class it constructs, or the
\* exception it raises
_asset_factory(is_phasset, media_type, media_subtypes) ==
    IF ~is_phasset THEN [class |-> "none", exc |-> "TypeError"]
    ELSE IF BitAnd(media_subtypes, PHAssetMediaSubtypePhotoLive) # 0
    THEN [class |-> "LivePhotoAsset", exc |-> "none"]
    ELSE IF media_type = PHAssetMediaTypeImage
    THEN [class |-> "PhotoAsset", exc |-> "none"]
    ELSE IF media_type = PHAssetMediaTypeVideo
    THEN [class |-> "VideoAsset", exc |-> "none"]
    ELSE [class |-> "none", exc |-> "PhotoKitMediaTypeError"]

\* a fetch hands _asset_factory a native handle
AssetFactory ==
    /\ ~made.called
    /\ LET r == _asset_factory(fetched.is_phasset, fetched.mediaType,
                               fetched.mediaSubtypes) IN
       made' = [called |-> TRUE, class |-> r.class, exc |-> r.exc]
    /\ UNCHANGED fetched
    /\ UNCHANGED notFactoryVars

InitFactory ==
    /\ RaceIdle
    /\ ThreadIdle
    /\ SlowMoIdle
    /\ LiveIdle
    /\ AuthIdle
    /\ ObserverIdle
    /\ ModeIdle
    /\ LibIdle
    /\ FilesIdle
    /\ BridgeIdle
    /\ ExportIdle
    /\ fetched \in [is_phasset : BOOLEAN, uuid : 1..NumAssets,
                    mediaType : MediaTypes, mediaSubtypes : MediaSubtypes]
    /\ made = NoMade

NextFactory == AssetFactory

SpecFactory == InitFactory /\ [][NextFactory]_vars

(***************************************************************************)
(* Claims about the asset factory                                          *)
(***************************************************************************)
\* the live-photo bit of a subtype mask, read off its binary expansion
LiveBitSet(media_subtypes) == (media_subtypes \div 8) % 2 = 1

\* C7: the class _asset_factory makes of a native asset depends only on its
\* media type and subtype flags: a live-photo flag gives the live-photo
\* class whatever the media type; otherwise an image gives the photo class,
\* a video the video class, and any other media type raises the media-type
\* error.
C7_AssetFactoryClassification ==
    (made.called /\ fetched.is_phasset) =>
        /\ LiveBitSet(fetched.mediaSubtypes)
              => made = [called |-> TRUE, class |-> "LivePhotoAsset", exc |-> "none"]
        /\ (~LiveBitSet(fetched.mediaSubtypes) /\ fetched.mediaType = 1)
              => made = [called |-> TRUE, class |-> "PhotoAsset", exc |-> "none"]
        /\ (~LiveBitSet(fetched.mediaSubtypes) /\ fetched.mediaType = 2)
              => made = [called |-> TRUE, class |-> "VideoAsset", exc |-> "none"]
        /\ (~LiveBitSet(fetched.mediaSubtypes) /\ fetched.mediaType \notin {1, 2})
              => made = [called |-> TRUE, class |-> "none",
                         exc |-> "PhotoKitMediaTypeError"]

\* C7 witness: a video that carries the live-photo flag among other flags
\* was made a live photo.
C7_Witness ==
    /\ made.called
    /\ fetched.is_phasset
    /\ fetched.mediaType = 2
    /\ fetched.mediaSubtypes = 9
    /\ made.class = "LivePhotoAsset"

(***************************************************************************)
(* asset.py: export and the data requests under it.                        *)
(* A call is followed from its first statement to its end; trace lists, in *)
(* order, the native calls and file writes it made on the way.             *)
(***************************************************************************)
\* Photos.PHImageRequestOptionsVersionCurrent / Unadjusted / Original
PHImageRequestOptionsVersionCurrent == 0
PHImageRequestOptionsVersionUnadjusted == 1
PHImageRequestOptionsVersionOriginal == 2

\* the values a caller can pass as version
Versions == 0..MaxVersion

\* how a piece of a call ended: it went on, it raised, or it never returned
Ok(trace) == [exc |-> "none", why |-> "none", trace |-> trace]
Raise(type, why, trace) == [exc |-> type, why |-> why, trace |-> trace]
Blocked(trace) == [exc |-> "blocked", why |-> "event never set", trace |-> trace]

\* a video request that validates version only after it built its options
_request_video_data_late_check(version, trace) ==
    IF version \notin {PHImageRequestOptionsVersionCurrent,
                       PHImageRequestOptionsVersionOriginal,
                       PHImageRequestOptionsVersionUnadjusted}
    THEN Raise("ValueError", "version", Append(trace, "PHVideoRequestOptions"))
    ELSE Ok(trace \o << "PHVideoRequestOptions", "requestAVAssetForVideo" >>)

\* PhotoAsset._request_image_data(version)
_request_image_data(version, trace) ==
    IF version \notin {PHImageRequestOptionsVersionCurrent,
                       PHImageRequestOptionsVersionOriginal,
                       PHImageRequestOptionsVersionUnadjusted}
    THEN Raise("ValueError", "version", trace)
    ELSE Ok(trace \o << "PHImageRequestOptions",
                        "requestImageDataAndOrientationForAsset" >>)

\* VideoAsset._request_video_data(version)
_request_video_data(version, trace) ==
    IF version \notin {PHImageRequestOptionsVersionCurrent,
                       PHImageRequestOptionsVersionOriginal,
                       PHImageRequestOptionsVersionUnadjusted}
    THEN Raise("ValueError", "version", trace)
    ELSE Ok(trace \o << "PHVideoRequestOptions", "requestAVAssetForVideo" >>)

\* PhotoAsset._request_resource_data(resource): when the native completion
\* carries an error, completion_handler raises on the callback thread and
\* the event is never set
_request_resource_data(error, trace) ==
    LET t == trace \o << "PHAssetResourceRequestOptions",
                         "requestDataForAssetResource" >> IN
    IF completion_handler(~error, error).sets_event THEN Ok(t) ELSE Blocked(t)

\* _LivePhotoRequest.requestLivePhotoResources(version): it builds its
\* options, then names PhotoKitNotificationsDelegate, which asset.py does
\* not define
requestLivePhotoResources(version, trace) ==
    Raise("NameError", "PhotoKitNotificationsDelegate",
          Append(trace, "PHLivePhotoRequestOptions"))

\* filename = Path(filename) if filename else Path(self.original_filename)
Filename(a, env, trace) ==
    IF a.filename_given THEN Ok(trace)
    ELSE IF env.has_original_filename
    THEN Ok(Append(trace, "assetResourcesForAsset"))
    ELSE Raise("TypeError", "filename", Append(trace, "assetResourcesForAsset"))

\* with open(output_file, "wb") as fd: fd.write(data)
WriteFile(trace) == Append(trace, "write")

\* PhotoAsset.export(dest, filename, version, overwrite, raw)
PhotoAsset_export(a, env) ==
    LET f == Filename(a, env, << >>) IN
    IF f.exc # "none" THEN f
    ELSE IF ~a.dest_is_dir THEN Raise("ValueError", "dest", f.trace)
    ELSE IF a.media_type = PHAssetMediaTypeImage
    THEN IF a.raw
         THEN LET t == Append(f.trace, "assetResourcesForAsset") IN
              IF ~env.has_raw THEN Raise("PhotoKitExportError", "raw", t)
              ELSE LET r == _request_resource_data(env.resource_error, t) IN
                   IF r.exc # "none" THEN r
                   ELSE Ok(WriteFile(Append(r.trace, "assetResourcesForAsset")))
         ELSE LET r == _request_image_data(a.version, f.trace) IN
              IF r.exc # "none" THEN r
              ELSE IF ~env.image_ok THEN Raise("PhotoKitExportError", "image", r.trace)
              ELSE Ok(WriteFile(r.trace))
    ELSE IF a.media_type = PHAssetMediaTypeVideo
    THEN LET r == _request_video_data(a.version, f.trace) IN
         IF r.exc # "none" THEN r
         ELSE IF ~env.video_ok THEN Raise("PhotoKitExportError", "video", r.trace)
         ELSE IF ~env.path_is_file THEN Raise("FileNotFoundError", "video", r.trace)
         ELSE Ok(Append(r.trace, "FileUtil.copy"))
    ELSE Ok(f.trace)

\* _SlowMoVideoExporter.exportSlowMoVideo()
exportSlowMoVideo(completed, trace) ==
    LET t == Append(trace, "exportAsynchronouslyWithCompletionHandler") IN
    IF completed THEN Ok(t) ELSE Raise("PhotoKitExportError", "status", t)

\* VideoAsset._export_slow_mo(dest, filename, version, overwrite)
_export_slow_mo(a, env) ==
    IF ~a.slow_mo THEN Raise("PhotoKitMediaTypeError", "slow_mo", << >>)
    ELSE LET r == _request_video_data(a.version, << >>) IN
         IF r.exc # "none" THEN r
         ELSE IF ~env.is_composition
         THEN Raise("PhotoKitMediaTypeError", "composition", r.trace)
         ELSE LET f == Filename(a, env, r.trace) IN
              IF f.exc # "none" THEN f
              ELSE IF ~a.dest_is_dir THEN Raise("ValueError", "dest", f.trace)
              ELSE exportSlowMoVideo(env.session_completed, f.trace)

\* VideoAsset.export(dest, filename, version, overwrite)
VideoAsset_export(a, env) ==
    IF a.slow_mo /\ a.version = PHImageRequestOptionsVersionCurrent
    THEN _export_slow_mo(a, env)
    ELSE LET f == Filename(a, env, << >>) IN
         IF f.exc # "none" THEN f
         ELSE IF ~a.dest_is_dir THEN Raise("ValueError", "dest", f.trace)
         ELSE LET r == _request_video_data(a.version, f.trace) IN
              IF r.exc # "none" THEN r
              ELSE IF ~env.video_ok THEN Raise("PhotoKitExportError", "video", r.trace)
              ELSE IF ~env.path_is_file
              THEN Raise("FileNotFoundError", "video", r.trace)
              ELSE Ok(Append(r.trace, "FileUtil.copy"))

\* LivePhotoAsset.export(dest, filename, version, overwrite, photo, video)
LivePhotoAsset_export(a, env) ==
    LET f == Filename(a, env, << >>) IN
    IF f.exc # "none" THEN f
    ELSE IF ~a.dest_is_dir THEN Raise("ValueError", "dest", f.trace)
    ELSE LET r == requestLivePhotoResources(a.version, f.trace) IN
         IF r.exc # "none" THEN r
         ELSE IF ~env.live_complete THEN Raise("PhotoKitExportError", "live", r.trace)
         ELSE LET p == IF a.photo
                       THEN _request_resource_data(env.resource_error, r.trace)
                       ELSE Ok(r.trace) IN
              IF p.exc # "none" THEN p
              ELSE LET pt == IF a.photo THEN WriteFile(p.trace) ELSE p.trace
                       v == IF a.video
                            THEN _request_resource_data(env.resource_error, pt)
                            ELSE Ok(pt) IN
                   IF v.exc # "none" THEN v
                   ELSE Ok(IF a.video THEN WriteFile(v.trace) ELSE v.trace)

\* asset.export(...): the export of the asset's class
export(a, env) ==
    CASE a.cls = "PhotoAsset" -> PhotoAsset_export(a, env)
      [] a.cls = "VideoAsset" -> VideoAsset_export(a, env)
      [] a.cls = "LivePhotoAsset" -> LivePhotoAsset_export(a, env)

\* what the native layer and the file system answer during one call
Envs == [has_original_filename : BOOLEAN, has_raw : BOOLEAN, resource_error : BOOLEAN,
         image_ok : BOOLEAN, video_ok : BOOLEAN, path_is_file : BOOLEAN,
         is_composition : BOOLEAN, session_completed : BOOLEAN,
         live_complete : BOOLEAN]

\* the calls of this part: a data request made directly, or an export
ExportCalls ==
    { [NoExportArgs EXCEPT !.op = o, !.cls = c, !.media_type = m, !.version = v] :
        o \in {"_request_image_data"}, c \in {"PhotoAsset", "LivePhotoAsset"},
        m \in {PHAssetMediaTypeImage}, v \in Versions }
    \cup { [NoExportArgs EXCEPT !.op = o, !.cls = c, !.media_type = m, !.version = v] :
        o \in {"_request_video_data"}, c \in {"VideoAsset"},
        m \in {PHAssetMediaTypeVideo}, v \in Versions }
    \cup [op : {"export"}, cls : {"PhotoAsset", "VideoAsset", "LivePhotoAsset"},
          media_type : MediaTypes, slow_mo : BOOLEAN, version : Versions,
          raw : BOOLEAN, photo : BOOLEAN, video : BOOLEAN, dest_is_dir : BOOLEAN,
          filename_given : BOOLEAN]

Finished(r) == [done |-> TRUE, exc |-> r.exc, why |-> r.why, trace |-> r.trace]

\* asset._request_image_data(version=...)
RequestImageData ==
    /\ ~export_run.done
    /\ export_args.op = "_request_image_data"
    /\ export_run' = Finished(_request_image_data(export_args.version, << >>))
    /\ UNCHANGED export_args
    /\ UNCHANGED notExportVars

\* asset._request_video_data(version=...)
RequestVideoData ==
    /\ ~export_run.done
    /\ export_args.op = "_request_video_data"
    /\ export_run' = Finished(_request_video_data(export_args.version, << >>))
    /\ UNCHANGED export_args
    /\ UNCHANGED notExportVars

\* asset.export(dest, ...)
Export(env) ==
    /\ ~export_run.done
    /\ export_args.op = "export"
    /\ export_run' = Finished(export(export_args, env))
    /\ UNCHANGED export_args
    /\ UNCHANGED notExportVars

InitExport ==
    /\ RaceIdle
    /\ ThreadIdle
    /\ SlowMoIdle
    /\ LiveIdle
    /\ AuthIdle
    /\ ObserverIdle
    /\ ModeIdle
    /\ LibIdle
    /\ FilesIdle
    /\ BridgeIdle
    /\ FactoryIdle
    /\ export_args \in ExportCalls
    /\ export_run = NoExportRun

NextExport ==
    \/ RequestImageData
    \/ RequestVideoData
    \/ \E env \in Envs : Export(env)

SpecExport == InitExport /\ [][NextExport]_vars

(***************************************************************************)
(* Claims about export and the data requests                               *)
(***************************************************************************)
\* the entries of a trace
Made(trace) == { trace[i] : i \in 1..Len(trace) }

\* the asynchronous requests a call can hand to the native layer
AsyncRequests == {"requestImageDataAndOrientationForAsset", "requestAVAssetForVideo",
                  "requestDataForAssetResource", "requestLivePhotoForAsset",
                  "exportAsynchronouslyWithCompletionHandler"}
\* the request options a call can build
RequestOptions == {"PHImageRequestOptions", "PHVideoRequestOptions",
                   "PHAssetResourceRequestOptions", "PHLivePhotoRequestOptions"}
\* the steps of a call that write a file
FileWrites == {"write", "FileUtil.copy", "exportAsynchronouslyWithCompletionHandler"}

\* C8: an image or video data request given a version that is none of
\* current, unadjusted, original raises ValueError at entry: no request
\* options have been built and no native request has been submitted; given
\* one of the three valid versions it raises no validation error and
\* submits its request.
C8_InvalidVersionRejectedAtEntry ==
    (export_run.done /\ export_args.op \in {"_request_image_data", "_request_video_data"})
        => /\ export_args.version \notin {0, 1, 2}
                => /\ export_run.exc = "ValueError"
                   /\ export_run.why = "version"
                   /\ Made(export_run.trace) \cap (RequestOptions \cup AsyncRequests) = {}
                   /\ export_run.trace = << >>
           /\ export_args.version \in {0, 1, 2}
                => /\ export_run.exc = "none"
                   /\ Made(export_run.trace) \cap AsyncRequests # {}

\* C8 witness: a video data request with an invalid version has raised
\* ValueError.
C8_Witness ==
    /\ export_run.done
    /\ export_args.op = "_request_video_data"
    /\ export_args.version = 3
    /\ export_run.exc = "ValueError"
    /\ export_run.trace = << >>

\* C9: export() of any asset class (raw=True and live photos included),
\* given an invalid version and otherwise valid arguments, raises the
\* version ValueError without submitting a native request or writing a file.
C9_ExportRejectsInvalidVersion ==
    (/\ export_run.done
     /\ export_args.op = "export"
     /\ export_args.version \notin {0, 1, 2}
     /\ export_args.dest_is_dir
     /\ export_args.filename_given
     /\ (export_args.cls = "PhotoAsset" => export_args.media_type = 1)
     /\ (export_args.cls = "VideoAsset" => export_args.media_type = 2))
        => /\ export_run.exc = "ValueError"
           /\ export_run.why = "version"
           /\ Made(export_run.trace) \cap (AsyncRequests \cup FileWrites) = {}

\* C10: every export, given a dest that is not an existing directory,
\* raises the dest ValueError before it issues any asynchronous native
\* request.
C10_ExportChecksDestFirst ==
    (/\ export_run.done
     /\ export_args.op = "export"
     /\ ~export_args.dest_is_dir
     /\ export_args.filename_given)
        => /\ export_run.exc = "ValueError"
           /\ export_run.why = "dest"
           /\ Made(export_run.trace) \cap AsyncRequests = {}

(***************************************************************************)
(* utils.py, asset.py: the names export gives the files it writes.         *)
(* A file name is a sequence of pieces, "." a piece of its own and no      *)
(* other piece holding a dot; every piece is ASCII, so normalize_fs_path   *)
(* leaves it as it is.                                                     *)
(***************************************************************************)
\* str.lower() of one piece
Lower(piece) == IF piece = "Photo" THEN "photo" ELSE piece
\* str.lower() of a name
LowerName(name) == [i \in 1..Len(name) |-> Lower(name[i])]

\* name.rfind("."), counted in pieces; 0 when there is no dot
LastDot(name) ==
    IF \E i \in 1..Len(name) : name[i] = "."
    THEN CHOOSE i \in 1..Len(name) :
            name[i] = "." /\ \A j \in (i + 1)..Len(name) : name[j] # "."
    ELSE 0

\* pathlib.PurePath.suffix: from the last dot on, unless that dot is the
\* first or the last character of the name
Suffix(name) ==
    LET i == LastDot(name) IN
    IF 1 < i /\ i < Len(name) THEN SubSeq(name, i, Len(name)) ELSE << >>

\* pathlib.PurePath.stem: the name without its suffix
Stem(name) ==
    IF Suffix(name) = << >> THEN name ELSE SubSeq(name, 1, LastDot(name) - 1)

\* str.startswith
StartsWith(name, prefix) ==
    /\ Len(prefix) <= Len(name)
    /\ SubSeq(name, 1, Len(prefix)) = prefix

\* the names of the files of a directory
Names(dir) == { f.name : f \in dir }

\* list_directory(dest.parent, startswith=dest.stem), case-insensitive
list_directory(dir, startswith) ==
    { g \in Names(dir) : StartsWith(LowerName(g), LowerName(startswith)) }

\* f"{dest.stem} ({count})" if count else dest.stem
Counted(stem, count) ==
    IF count = 0 THEN stem ELSE stem \o << " (", ToString(count), ")" >>

\* increment_filename(filepath): the first of stem, stem (1), stem (2), ...
\* whose lower-cased form is the stem of no listed file, with the suffix of
\* filepath put back
increment_filename(dir, filepath) ==
    LET dest_files == { LowerName(Stem(g)) : g \in list_directory(dir, Stem(filepath)) }
        Taken(count) == LowerName(Counted(Stem(filepath), count)) \in dest_files
        count == CHOOSE c \in 0..(Cardinality(dir) + 1) :
                    ~Taken(c) /\ \A b \in 0..(c - 1) : Taken(b)
    IN  Counted(Stem(filepath), count) \o Suffix(filepath)

\* output_file = dest / f"{filename.stem}.{ext}" (photo) or
\* dest / f"{filename.stem}{ext}" (video, ext = path.suffix)
OutputFile(kind, stem, ext) ==
    IF kind = "photo"
    THEN stem \o << "." >> \o (IF ext = "" THEN << >> ELSE << ext >>)
    ELSE stem \o (IF ext = "" THEN << >> ELSE << ".", ext >>)

\* open(output_file, "wb").write(data) / FileUtil.copy(path, output_file)
Write(dir, path, by) == { f \in dir : f.name # path } \cup { [name |-> path, by |-> by] }

\* the tail of export: name the output file, increment it unless
\* overwrite, write it
ExportFile(kind, stem, ext, overwrite) ==
    /\ nexports < MaxExports
    /\ LET output_file == OutputFile(kind, stem, ext)
           path == IF overwrite THEN output_file
                   ELSE increment_filename(dest_dir, output_file) IN
       /\ dest_dir' = Write(dest_dir, path, nexports + 1)
       /\ last_write' = [overwrite |-> overwrite, output_file |-> output_file,
                         path |-> path,
                         existed |-> path \in Names(dest_dir),
                         kept |-> dest_dir \subseteq dest_dir']
    /\ nexports' = nexports + 1
    /\ UNCHANGED notFilesVars

\* the stems and extensions of the exported files
Stems == { << "photo" >>, << "Photo" >> }
Exts == { "jpg", "" }

InitFiles ==
    /\ RaceIdle
    /\ ThreadIdle
    /\ SlowMoIdle
    /\ LiveIdle
    /\ AuthIdle
    /\ ObserverIdle
    /\ ModeIdle
    /\ LibIdle
    /\ BridgeIdle
    /\ FactoryIdle
    /\ ExportIdle
    /\ dest_dir \in { {}, { [name |-> << "photo", ".", "jpg" >>, by |-> 0] },
                      { [name |-> << "Photo", ".", "png" >>, by |-> 0] } }
    /\ last_write = NoWrite
    /\ nexports = 0

NextFiles ==
    \E kind \in {"photo", "video"}, stem \in Stems, ext \in Exts, overwrite \in BOOLEAN :
        ExportFile(kind, stem, ext, overwrite)

SpecFiles == InitFiles /\ [][NextFiles]_vars

(***************************************************************************)
(* Claims about the names of exported files                                *)
(***************************************************************************)
\* C11: an export with overwrite=False never writes to a path that existed
\* when it was called, and leaves every file that existed as it was.
C11_NoOverwrite ==
    (nexports > 0 /\ ~last_write.overwrite)
        => ~last_write.existed /\ last_write.kept

\* The same for output names that have a suffix: there the name written is
\* new, and after photo.jpg come photo (1).jpg and photo (2).jpg.
NoOverwriteWithSuffix ==
    (nexports > 0 /\ ~last_write.overwrite /\ Suffix(last_write.output_file) # << >>)
        => ~last_write.existed /\ last_write.kept

PhotoOneTwo ==
    /\ [name |-> << "photo", ".", "jpg" >>, by |-> 0] \in dest_dir
    /\ [name |-> << "photo", " (", "1", ")", ".", "jpg" >>, by |-> 1] \in dest_dir
    /\ [name |-> << "photo", " (", "2", ")", ".", "jpg" >>, by |-> 2] \in dest_dir

(***************************************************************************)
(* photolibrary.py: fetching by identifier, delete_assets, add_photo,      *)
(* album.  An identifier is a uuid with or without the "/L0/001" tail of   *)
(* a full local identifier.                                                *)
(***************************************************************************)
\* the identifiers a caller can name an asset or an album by
AssetIds == [uuid : 1..NumAssets, rest : {"", "L0/001"}]
AlbumIds == [uuid : 1..NumAlbums, rest : {"", "L0/001"}]
\* the empty string
EmptyId == [uuid |-> 0, rest |-> ""]
Titles == {"Trip", "Work"}

\* uuid.split("/")[0]
SplitUuid(id) == [uuid |-> id.uuid, rest |-> ""]

\* the native fetch by identifiers: the objects of the library that the
\* identifiers name, each once
RECURSIVE Fetch(_, _)
Fetch(uuids, present) ==
    IF uuids = << >> THEN << >>
    ELSE LET rest == Fetch(Tail(uuids), present \ {Head(uuids).uuid}) IN
         IF Head(uuids).uuid \in present THEN << Head(uuids).uuid >> \o rest ELSE rest

\* a sequence holding the members of a set, smallest first
RECURSIVE Listed(_)
Listed(set) ==
    IF set = {} THEN << >>
    ELSE LET m == CHOOSE x \in set : \A y \in set : x <= y IN << m >> \o Listed(set \ {m})

\* how a call on the library ends
LibOk(value, trace) == [exc |-> "none", value |-> value, trace |-> trace]
LibRaise(type, trace) == [exc |-> type, value |-> << >>, trace |-> trace]

\* the media type of an asset of the library: an image, or a sound, which
\* is neither of the types the factory knows
MediaTypeOf(lib, u) ==
    IF u \in lib.audio THEN PHAssetMediaTypeAudio ELSE PHAssetMediaTypeImage

\* [self._asset_factory(fetch_result.objectAtIndex_(idx)) for idx in ...]
FactoryOverFetch(fetch_result, lib, trace) ==
    IF \E i \in 1..Len(fetch_result) :
          _asset_factory(TRUE, MediaTypeOf(lib, fetch_result[i]), 0).exc # "none"
    THEN LibRaise("PhotoKitMediaTypeError", trace \o << "_asset_factory" >>)
    ELSE LibOk(fetch_result, trace \o << "_asset_factory" >>)

\* a lookup that hands back an empty list when the fetch finds nothing
_assets_from_uuid_list_returns_empty(uuids, lib) ==
    LET stripped == [i \in 1..Len(uuids) |-> SplitUuid(uuids[i])]
        fetch_result == Fetch(stripped, lib.assets)
    IN  LibOk(fetch_result, << "fetch" >>)

\* PhotoLibrary._assets_from_uuid_list(uuids)
_assets_from_uuid_list(uuids, lib) ==
    LET stripped == [i \in 1..Len(uuids) |-> SplitUuid(uuids[i])]
        fetch_result == Fetch(stripped, lib.assets)
    IN  IF \E i \in 1..Len(uuids) : uuids[i] = NoneId
        THEN LibRaise("AttributeError", << >>)
        ELSE IF multi_library_mode
        THEN IF fetch_result # << >>
             THEN FactoryOverFetch(fetch_result, lib,
                                   << "fetchPHObjectsForUUIDs_entityName_" >>)
             ELSE LibRaise("PhotoKitFetchFailed", << "fetchPHObjectsForUUIDs_entityName_" >>)
        ELSE IF Len(fetch_result) >= 1
             THEN FactoryOverFetch(fetch_result, lib,
                                   << "fetchAssetsWithLocalIdentifiers_options_" >>)
             ELSE LibRaise("PhotoKitFetchFailed",
                           << "fetchAssetsWithLocalIdentifiers_options_" >>)

\* an asset() that turns only the lookup's own failure into
\* PhotoKitFetchFailed and lets every other exception through
asset_catches_fetch_failed(uuid, lib) ==
    LET r == _assets_from_uuid_list(<< uuid >>, lib) IN
    IF r.exc # "none" THEN r
    ELSE IF Len(r.value) < 1 THEN LibRaise("PhotoKitFetchFailed", r.trace)
    ELSE LibOk(<< r.value[1] >>, r.trace)

\* PhotoLibrary.asset(uuid): any exception of the lookup becomes
\* PhotoKitFetchFailed
asset(uuid, lib) ==
    LET r == _assets_from_uuid_list(<< uuid >>, lib) IN
    IF r.exc # "none" \/ Len(r.value) < 1
    THEN LibRaise("PhotoKitFetchFailed", r.trace)
    ELSE LibOk(<< r.value[1] >>, r.trace)

\* PhotoLibrary.assets(uuids): uuids is << >> both for None and for the
\* empty list, which `if uuids:` does not tell apart
assets(uuids, lib) ==
    IF uuids # << >> THEN _assets_from_uuid_list(uuids, lib)
    ELSE IF multi_library_mode
    THEN LET r == _assets_from_uuid_list(
                      [i \in 1..Cardinality(lib.assets) |->
                          [uuid |-> Listed(lib.assets)[i], rest |-> ""]], lib) IN
         [r EXCEPT !.trace = << "get_asset_uuids" >> \o @]
    ELSE FactoryOverFetch(Listed(lib.assets), lib, << "fetchAssetsWithOptions_" >>)

\* the title of the album of the library with this uuid
AlbumTitle(lib, u) == (CHOOSE a \in lib.albums : a.uuid = u).title
\* the uuids of the albums of the library
AlbumUuids(lib) == { a.uuid : a \in lib.albums }

\* PhotoLibrary._albums_from_uuid_list(uuids)
_albums_from_uuid_list(uuids, lib) ==
    LET stripped == [i \in 1..Len(uuids) |-> SplitUuid(uuids[i])] IN
    IF multi_library_mode
    THEN LET fetch_result == Fetch(stripped, AlbumUuids(lib)) IN
         IF fetch_result # << >>
         THEN LibOk(fetch_result, << "fetchPHObjectsForUUIDs_entityName_" >>)
         ELSE LibRaise("PhotoKitFetchFailed", << "fetchPHObjectsForUUIDs_entityName_" >>)
    ELSE LibOk(SelectSeq(Listed(AlbumUuids(lib)),
                         LAMBDA u : \E i \in 1..Len(stripped) : stripped[i].uuid = u),
               << "fetchAssetCollectionsWithType_subtype_options_" >>)

\* an albums() that picks its lookup by the mode the instance was
\* constructed in
albums_by_construction_mode(lib) ==
    IF ~libraries[1].shared
    THEN LET r == _albums_from_uuid_list(
                      [i \in 1..Cardinality(lib.albums) |->
                          [uuid |-> Listed(AlbumUuids(lib))[i], rest |-> ""]], lib) IN
         [r EXCEPT !.trace = << "get_album_uuids" >> \o @]
    ELSE LibOk(Listed(AlbumUuids(lib)),
               << "fetchAssetCollectionsWithType_subtype_options_" >>)

\* PhotoLibrary.albums()
albums(lib) ==
    IF multi_library_mode
    THEN LET r == _albums_from_uuid_list(
                      [i \in 1..Cardinality(lib.albums) |->
                          [uuid |-> Listed(AlbumUuids(lib))[i], rest |-> ""]], lib) IN
         [r EXCEPT !.trace = << "get_album_uuids" >> \o @]
    ELSE LibOk(Listed(AlbumUuids(lib)),
               << "fetchAssetCollectionsWithType_subtype_options_" >>)

\* bool(uuid), bool(title)
TruthyId(id) == id.uuid # 0
TruthyTitle(title) == title \notin {NoneTitle, ""}

\* an album() that rejects only the call with neither argument and lets
\* uuid win when both are given
album_uuid_wins(uuid, title, lib) ==
    IF ~(TruthyId(uuid) \/ TruthyTitle(title))
    THEN LibRaise("ValueError", << >>)
    ELSE IF TruthyId(uuid)
    THEN LET r == _albums_from_uuid_list(<< uuid >>, lib) IN
         IF r.exc # "none" \/ Len(r.value) < 1
         THEN LibRaise("PhotoKitFetchFailed", r.trace)
         ELSE LibOk(<< r.value[1] >>, r.trace)
    ELSE LibRaise("PhotoKitFetchFailed", << >>)

\* PhotoLibrary.album(uuid, title)
album(uuid, title, lib) ==
    IF ~(TruthyId(uuid) \/ TruthyTitle(title)) \/ (TruthyId(uuid) /\ TruthyTitle(title))
    THEN LibRaise("ValueError", << >>)
    ELSE IF TruthyId(uuid)
    THEN LET r == _albums_from_uuid_list(<< uuid >>, lib) IN
         IF r.exc # "none" \/ Len(r.value) < 1
         THEN LibRaise("PhotoKitFetchFailed", r.trace)
         ELSE LibOk(<< r.value[1] >>, r.trace)
    ELSE LET r == albums(lib) IN
         IF r.exc # "none" THEN r
         ELSE LET hits == SelectSeq(r.value, LAMBDA u : AlbumTitle(lib, u) = title) IN
              IF hits # << >> THEN LibOk(<< hits[1] >>, r.trace)
              ELSE LibRaise("PhotoKitFetchFailed", r.trace)

\* a delete_assets that looks at what the transaction answered
delete_assets_checked(a, committed, lib) ==
    IF committed
    THEN [run |-> LibOk(<< >>, << "performChangesAndWait_error_" >>),
          lib |-> [lib EXCEPT !.assets = @ \ {a}, !.deleted = @ \cup {a}]]
    ELSE [run |-> LibRaise("PhotoKitError", << "performChangesAndWait_error_" >>),
          lib |-> lib]

\* PhotoLibrary.delete_assets([a]): committed tells whether the native
\* layer (and the user it prompts) carried the deletion out
delete_assets(a, committed, lib) ==
    [run |-> LibOk(<< >>, << "performChangesAndWait_error_" >>),
     lib |-> IF committed
             THEN [lib EXCEPT !.assets = @ \ {a}, !.deleted = @ \cup {a}]
             ELSE lib]

\* an add_photo that submits the import without looking at the file
add_photo_unchecked(is_file, outcome, lib) ==
    LET t == << "import_image_changes_handler", "performChanges_completionHandler_" >>
        asset_uuid == [uuid |-> FreeId(lib.assets \cup lib.deleted, NumAssets),
                       rest |-> "L0/001"]
        imported == outcome = "ok" /\ is_file
        added == IF imported THEN [lib EXCEPT !.assets = @ \cup {asset_uuid.uuid}]
                 ELSE lib
    IN  [run |-> [asset(asset_uuid, added) EXCEPT !.trace = t \o @], lib |-> added]

\* PhotoLibrary.add_photo(image_path): is_file is the answer of
\* Path(image_path).is_file(), outcome that of the native transaction
add_photo(is_file, outcome, lib) ==
    IF ~is_file THEN [run |-> LibRaise("FileNotFoundError", << >>), lib |-> lib]
    ELSE LET t == << "import_image_changes_handler", "performChanges_completionHandler_" >>
             asset_uuid == [uuid |-> FreeId(lib.assets \cup lib.deleted, NumAssets),
                            rest |-> "L0/001"]
             added == IF outcome = "ok"
                      THEN [lib EXCEPT !.assets = @ \cup {asset_uuid.uuid}]
                      ELSE lib
         IN  IF ~completion_handler(outcome = "ok", outcome = "error").sets_event
             THEN [run |-> [exc |-> "blocked", value |-> << >>, trace |-> t], lib |-> lib]
             ELSE LET r == asset(asset_uuid, added) IN
                  [run |-> [r EXCEPT !.trace = t \o @], lib |-> added]

\* a call on the library has ended
LibEnded(c, r, lib) ==
    /\ lib_call' = c
    /\ lib_run' = [exc |-> r.exc, value |-> r.value, trace |-> r.trace,
                   multi |-> multi_library_mode, before |-> photolib]
    /\ photolib' = lib
    /\ UNCHANGED notLibVars

\* library.asset(uuid)
AssetCall(uuid) ==
    LibEnded([NoLibCall EXCEPT !.op = "asset", !.uuid = uuid],
             asset(uuid, photolib), photolib)

\* library.assets() when is_none, library.assets(uuids=uuids) otherwise
AssetsCall(uuids, is_none) ==
    /\ is_none => uuids = << >>
    /\ LibEnded([NoLibCall EXCEPT !.op = "assets", !.uuids = uuids,
                                  !.uuids_is_none = is_none],
                assets(uuids, photolib), photolib)

\* library.delete_assets([a]) with the handle of an asset of the library
DeleteAssetsCall(a, committed) ==
    /\ a \in photolib.assets
    /\ LET d == delete_assets(a, committed, photolib) IN
       LibEnded([NoLibCall EXCEPT !.op = "delete_assets", !.committed = committed,
                                  !.uuid = [uuid |-> a, rest |-> ""]], d.run, d.lib)

\* library.add_photo(image_path)
AddPhotoCall(is_file, outcome) ==
    /\ FreeId(photolib.assets \cup photolib.deleted, NumAssets) # 0
    /\ ~is_file => outcome = "ok"
    /\ LET d == add_photo(is_file, outcome, photolib) IN
       LibEnded([NoLibCall EXCEPT !.op = "add_photo", !.is_file = is_file], d.run, d.lib)

\* library.album(uuid=uuid, title=title)
AlbumCall(uuid, title) ==
    LibEnded([NoLibCall EXCEPT !.op = "album", !.uuid = uuid, !.title = title],
             album(uuid, title, photolib), photolib)

\* library.albums()
AlbumsCall ==
    LibEnded([NoLibCall EXCEPT !.op = "albums"], albums(photolib), photolib)

\* the sequences of at most two identifiers
UuidLists ==
    { << >> } \cup { << a >> : a \in AssetIds } \cup { << a, b >> : a, b \in AssetIds }

InitLibrary ==
    /\ RaceIdle
    /\ ThreadIdle
    /\ SlowMoIdle
    /\ LiveIdle
    /\ (ModeIdle \/ ModeMultiLibrary)
    /\ AuthIdle
    /\ ObserverIdle
    /\ BridgeIdle
    /\ FactoryIdle
    /\ ExportIdle
    /\ FilesIdle
    /\ \E held \in SUBSET (1..NumAssets) :
       \E sounds \in SUBSET held :
       \E named \in { {}, { [uuid |-> 1, title |-> "Trip"] },
                      { [uuid |-> 1, title |-> "Trip"], [uuid |-> 2, title |-> "Trip"] },
                      { [uuid |-> 1, title |-> "Work"], [uuid |-> 2, title |-> "Trip"] } } :
            photolib = [assets |-> held, audio |-> sounds, deleted |-> {}, albums |-> named]
    /\ lib_call = NoLibCall
    /\ lib_run = NoLibRun

NextLibrary ==
    \/ \E uuid \in AssetIds \cup {NoneId} : AssetCall(uuid)
    \/ \E uuids \in UuidLists, is_none \in BOOLEAN : AssetsCall(uuids, is_none)
    \/ \E a \in 1..NumAssets, committed \in BOOLEAN : DeleteAssetsCall(a, committed)
    \/ \E is_file \in BOOLEAN, outcome \in {"ok", "error", "refused"} :
          AddPhotoCall(is_file, outcome)
    \/ \E uuid \in AlbumIds \cup {NoneId, EmptyId}, title \in Titles \cup {NoneTitle, ""} :
          AlbumCall(uuid, title)
    \/ AlbumsCall
    \/ enable_multi_library_mode

SpecLibrary == InitLibrary /\ [][NextLibrary]_vars

(***************************************************************************)
(* Claims about fetching, deleting, importing and album lookup             *)
(***************************************************************************)
\* C13: once delete_assets has committed the deletion of an asset,
\* asset(uuid) and assets(uuids=[uuid]) with its uuid raise
\* PhotoKitFetchFailed, in default mode and in multi-library mode.
C13_DeletedAssetIsNotFetched ==
    /\ (lib_call.op = "asset" /\ lib_call.uuid.uuid \in photolib.deleted)
          => lib_run.exc = "PhotoKitFetchFailed"
    /\ (/\ lib_call.op = "assets"
        /\ Len(lib_call.uuids) = 1
        /\ lib_call.uuids[1].uuid \in photolib.deleted)
          => lib_run.exc = "PhotoKitFetchFailed"

\* C13 witness: in multi-library mode, assets(uuids=[uuid]) of a deleted
\* asset has raised PhotoKitFetchFailed.
C13_Witness ==
    /\ ~_global_single_library_mode
    /\ lib_call.op = "assets"
    /\ Len(lib_call.uuids) = 1
    /\ lib_call.uuids[1].uuid \in photolib.deleted
    /\ lib_run.exc = "PhotoKitFetchFailed"

\* C14: add_photo with a path that is not an existing file raises
\* FileNotFoundError before it builds a change closure or submits a
\* transaction, in both modes, and leaves the library as it was.
C14_AddPhotoMissingFile ==
    (lib_call.op = "add_photo" /\ ~lib_call.is_file)
        => /\ lib_run.exc = "FileNotFoundError"
           /\ lib_run.trace = << >>
           /\ photolib = lib_run.before

\* C14 witness: a missing file was refused in multi-library mode.
C14_Witness ==
    /\ ~_global_single_library_mode
    /\ lib_call.op = "add_photo"
    /\ ~lib_call.is_file
    /\ lib_run.exc = "FileNotFoundError"
    /\ photolib.assets # {}

NamedBy(uuids) == { uuids[i].uuid : i \in 1..Len(uuids) }
\* the uuids a call handed back
Returned == { lib_run.value[i] : i \in 1..Len(lib_run.value) }

\* C27: assets(uuids) with a list, empty or not, returns only assets whose
\* uuid the list names; the whole library is returned only when uuids is
\* None.
C27_AssetsOfAListAreInTheList ==
    (lib_call.op = "assets" /\ ~lib_call.uuids_is_none /\ lib_run.exc = "none")
        => Returned \subseteq NamedBy(lib_call.uuids)

\* What does hold: a list that names at least one identifier returns only
\* assets it names, and assets() returns every asset of the library.
AssetsOfANonEmptyList ==
    /\ (lib_call.op = "assets" /\ lib_call.uuids # << >> /\ lib_run.exc = "none")
          => Returned \subseteq NamedBy(lib_call.uuids)
    /\ (lib_call.op = "assets" /\ lib_call.uuids_is_none /\ lib_run.exc = "none")
          => Returned = photolib.assets

\* assets(uuids=[]) has returned every asset of a library of two.
EmptyListReturnsWholeLibrary ==
    /\ lib_call.op = "assets"
    /\ ~lib_call.uuids_is_none
    /\ lib_call.uuids = << >>
    /\ lib_run.exc = "none"
    /\ Returned = photolib.assets
    /\ Cardinality(photolib.assets) = 2

\* the native calls and metadata-store reads a lookup made
InTrace(name) == \E i \in 1..Len(lib_run.trace) : lib_run.trace[i] = name
Lookups == {"asset", "assets", "albums", "album"}
SingleLibraryFetches ==
    {"fetchAssetsWithLocalIdentifiers_options_", "fetchAssetsWithOptions_",
     "fetchAssetCollectionsWithType_subtype_options_"}

\* C28: asset(), assets(), albums() and album() take the lookup that the
\* process-wide flag names when they are called: the fetch by uuid through
\* the instance's handle (fed from the metadata store when the whole
\* library is asked for) when the flag says multi-library mode, the
\* single-library fetch otherwise, whatever mode the instance was
\* constructed in.
C28_LookupFollowsTheFlagAtCallTime ==
    (lib_call.op \in Lookups /\ lib_run.trace # << >>)
        => /\ InTrace("fetchPHObjectsForUUIDs_entityName_") <=> lib_run.multi
           /\ (\E f \in SingleLibraryFetches : InTrace(f)) <=> ~lib_run.multi
           /\ (InTrace("get_asset_uuids") \/ InTrace("get_album_uuids")) => lib_run.multi

\* C28 witness: after enable_multi_library_mode(), assets() on the instance
\* constructed in default mode read the uuids from the metadata store and
\* fetched them through the instance's handle.
C28_Witness ==
    /\ libraries[1].shared
    /\ lib_call.op = "assets"
    /\ lib_call.uuids_is_none
    /\ lib_run.multi
    /\ lib_run.exc = "none"
    /\ InTrace("get_asset_uuids")
    /\ InTrace("fetchPHObjectsForUUIDs_entityName_")

\* C29: delete_assets never raises; when the native transaction did not
\* carry the deletion out, the call still returns normally, the library is
\* as it was and the native fetch still finds the asset.
C29_DeleteAssetsNeverRaises ==
    lib_call.op = "delete_assets"
        => /\ lib_run.exc = "none"
           /\ ~lib_call.committed
                 => /\ lib_call.uuid.uuid \in photolib.assets
                    /\ photolib.assets = lib_run.before.assets
                    /\ Fetch(<< lib_call.uuid >>, photolib.assets)
                          = << lib_call.uuid.uuid >>

\* C29 witness: a deletion the native layer refused has returned and the
\* asset is still in the library.
C29_Witness ==
    /\ lib_call.op = "delete_assets"
    /\ ~lib_call.committed
    /\ lib_run.exc = "none"
    /\ lib_call.uuid.uuid \in photolib.assets

\* C30: asset(uuid) returns or raises PhotoKitFetchFailed, whatever went
\* wrong in the lookup: nothing found, an asset of a media type the
\* factory does not know, or a uuid that is not a string.
C30_AssetRaisesOnlyFetchFailed ==
    lib_call.op = "asset" => lib_run.exc \in {"none", "PhotoKitFetchFailed"}

\* C30 witness: asset(uuid) of a sound, which the factory refuses with
\* PhotoKitMediaTypeError, has raised PhotoKitFetchFailed.
C30_Witness ==
    /\ lib_call.op = "asset"
    /\ lib_call.uuid.uuid \in photolib.assets \cap photolib.audio
    /\ InTrace("_asset_factory")
    /\ lib_run.exc = "PhotoKitFetchFailed"

(***************************************************************************)
(* photolibrary.py: request_authorization                                  *)
(* The native statuses are the integers of PHAuthorizationStatus           *)
(* (0 not determined, 1 restricted, 2 denied, 3 authorized, 4 limited).    *)
(***************************************************************************)
AuthStatuses == 0..MaxAuthStatus
AccessLevels == {PHAccessLevelAddOnly, PHAccessLevelReadWrite}

\* PhotoLibrary.authorization_status() on the given OS and native statuses
authorization_status_of(legacy, st) ==
    IF legacy
    THEN IF st.legacy = PHAuthorizationStatusAuthorized
         THEN <<TRUE, TRUE>> ELSE <<FALSE, FALSE>>
    ELSE << st.read_write = PHAuthorizationStatusAuthorized,
            st.add_only = PHAuthorizationStatusAuthorized >>

\* the test of request_authorization: access at access_level is granted
HasAccess(access_level, legacy, st) ==
    LET s == authorization_status_of(legacy, st) IN
    \/ access_level = PHAccessLevelReadWrite /\ s[1]
    \/ access_level = PHAccessLevelAddOnly /\ s[2]

\* bool(auth_status) of an integer status
bool(auth_status) == auth_status # 0

\* The native status that governs access_level
StatusFor(access_level, legacy, st) ==
    IF legacy THEN st.legacy
    ELSE IF access_level = PHAccessLevelReadWrite THEN st.read_write
    ELSE st.add_only

\* The native statuses with the one that governs access_level set to status
WithStatus(access_level, legacy, st, status) ==
    IF legacy THEN [st EXCEPT !.legacy = status]
    ELSE IF access_level = PHAccessLevelReadWrite THEN [st EXCEPT !.read_write = status]
    ELSE [st EXCEPT !.add_only = status]

\* The native statuses after requestAuthorizationForAccessLevel_handler_
\* (requestAuthorization_ on the legacy path): the system asks the user only
\* while the status is not determined, and answer is what it then becomes
\* (still not determined while the prompt is open).
Requested(access_level, legacy, st, answer) ==
    IF StatusFor(access_level, legacy, st) = 0
    THEN WithStatus(access_level, legacy, st, answer)
    ELSE st

\* PhotoLibrary.request_authorization(access_level): the value returned, the
\* number of native requests made and the native statuses at the return.
\* answers[i] is the status the i-th native request leaves behind.
request_authorization(access_level, legacy, st, answers) ==
    IF HasAccess(access_level, legacy, st)
    THEN [value |-> TRUE, requests |-> 0, status |-> st]
    ELSE LET s1 == Requested(access_level, legacy, st, answers[1])
             s2 == Requested(access_level, legacy, s1, answers[2])
         IN IF legacy
            THEN IF s1.legacy = PHAuthorizationStatusAuthorized
                 THEN [value |-> bool(s1.legacy), requests |-> 1, status |-> s1]
                 ELSE [value |-> bool(s2.legacy), requests |-> 2, status |-> s2]
            ELSE IF HasAccess(access_level, legacy, s1)
                 THEN [value |-> TRUE, requests |-> 1, status |-> s1]
                 ELSE IF HasAccess(access_level, legacy, s2)
                 THEN [value |-> TRUE, requests |-> 2, status |-> s2]
                 \* requestAuthorizationForAccessLevel_handler_ returns None
                 ELSE [value |-> FALSE, requests |-> 2, status |-> s2]

\* PhotoLibrary.request_authorization(access_level) called
RequestAuthorization(access_level, answers) ==
    /\ LET r == request_authorization(access_level, os_legacy, ph_status, answers) IN
       /\ ph_status' = r.status
       /\ auth_call' = [access_level |-> access_level, value |-> r.value,
                        requests |-> r.requests, done |-> TRUE]
    /\ UNCHANGED os_legacy
    /\ UNCHANGED notAuthVars

\* The user changes the access of the process in the privacy settings.
PrivacySettingsChanged(level, status) ==
    /\ ph_status' = WithStatus(level, os_legacy, ph_status, status)
    /\ ph_status' # ph_status
    /\ UNCHANGED << os_legacy, auth_call >>
    /\ UNCHANGED notAuthVars

InitAuth ==
    /\ RaceIdle
    /\ ThreadIdle
    /\ SlowMoIdle
    /\ LiveIdle
    /\ ModeIdle
    /\ BridgeIdle
    /\ FactoryIdle
    /\ ExportIdle
    /\ FilesIdle
    /\ LibIdle
    /\ ObserverIdle
    /\ os_legacy \in BOOLEAN
    /\ ph_status \in [legacy : AuthStatuses, read_write : AuthStatuses,
                       add_only : AuthStatuses]
    /\ IF os_legacy
       THEN ph_status.read_write = 0 /\ ph_status.add_only = 0
       ELSE ph_status.legacy = 0
    /\ auth_call = NoAuthCall

NextAuth ==
    \/ \E l \in AccessLevels, a1, a2 \in AuthStatuses :
           RequestAuthorization(l, <<a1, a2>>)
    \/ \E l \in AccessLevels, st \in AuthStatuses : PrivacySettingsChanged(l, st)

SpecAuth == InitAuth /\ [][NextAuth]_vars

(***************************************************************************)
(* Claims about request_authorization                                      *)
(***************************************************************************)
\* C15: request_authorization(access_level) returns True if and only if
\* access is authorized at the requested level when it returns, on the
\* legacy and on the per-access-level path; it makes no native request when
\* access is already authorized and at most two otherwise.
C15_RequestAuthorizationResult ==
    [][ (auth_call' # auth_call /\ auth_call'.done) =>
          /\ auth_call'.value
               <=> HasAccess(auth_call'.access_level, os_legacy, ph_status')
          /\ HasAccess(auth_call'.access_level, os_legacy, ph_status)
               => auth_call'.requests = 0
          /\ auth_call'.requests <= 2 ]_vars

\* The per-access-level path alone returns True exactly when access at the
\* requested level is authorized at the return.
PerAccessLevelResult ==
    [][ (auth_call' # auth_call /\ auth_call'.done /\ ~os_legacy) =>
          (auth_call'.value
             <=> HasAccess(auth_call'.access_level, os_legacy, ph_status')) ]_vars

\* The number of native requests: none when access is already authorized,
\* at most two otherwise, on both paths.
NativeRequestCount ==
    [][ (auth_call' # auth_call /\ auth_call'.done) =>
          /\ HasAccess(auth_call'.access_level, os_legacy, ph_status)
               => auth_call'.requests = 0
          /\ auth_call'.requests <= 2 ]_vars

\* The legacy path has returned True while access is not authorized.
LegacyTrueWhenDenied ==
    /\ os_legacy
    /\ auth_call.done
    /\ auth_call.value
    /\ auth_call.requests = 2
    /\ ~HasAccess(auth_call.access_level, os_legacy, ph_status)

(***************************************************************************)
(* changeobserver.py: the change observer                                  *)
(* observer.state is the state the calls made on the observer leave it in; *)
(* observer.registrations counts the registerChangeObserver_ calls not yet *)
(* undone by unregisterChangeObserver_.  The native library sends one      *)
(* notification per change to an observer it has registered.               *)
(***************************************************************************)
WatchedAssets == 1..NumWatched
\* an asset of the watched library: 0 when absent, else its revision
Revisions == 0..MaxRevision

\* ChangeObserver.stop() that leaves the native registration in place
stop_keeps_registration(obs) ==
    [obs EXCEPT !.state = "Unregistered"]

\* ChangeObserver.start(): registerChangeObserver_(self)
start(obs) ==
    [obs EXCEPT !.state = "Observing", !.registrations = obs.registrations + 1]

\* ChangeObserver.stop(): unregisterChangeObserver_(self)
stop(obs) ==
    [obs EXCEPT !.state = "Unregistered", !.registrations = 0]

\* ChangeObserver.__init__(): calls self.start()
ChangeObserver_init(obs) ==
    start([obs EXCEPT !.constructed = TRUE])

\* the assets added to, removed from and updated in the library between
\* two snapshots of it
AssetChanges(old, new) ==
    [added   |-> {a \in WatchedAssets : old[a] = 0 /\ new[a] # 0},
     removed |-> {a \in WatchedAssets : old[a] # 0 /\ new[a] = 0},
     updated |-> {a \in WatchedAssets : old[a] # 0 /\ new[a] # 0 /\ old[a] # new[a]}]

\* ChangeObserver()
Construct ==
    /\ ~observer.constructed
    /\ observer' = ChangeObserver_init(observer)
    /\ snapshot' = watched
    /\ UNCHANGED << watched, pending, notify >>
    /\ UNCHANGED notObserverVars

\* observer.start(), called once after construction
Start ==
    /\ observer.constructed
    /\ ~observer.started
    /\ observer' = [start(observer) EXCEPT !.started = TRUE]
    /\ snapshot' = IF observer.registrations = 0 THEN watched ELSE snapshot
    /\ UNCHANGED << watched, pending, notify >>
    /\ UNCHANGED notObserverVars

\* observer.stop(), called while observing; the native library delivers
\* nothing to an observer it no longer holds
Stop ==
    /\ observer.state = "Observing"
    /\ observer' = [stop(observer) EXCEPT !.stopped = observer.started]
    /\ pending' = IF observer'.registrations = 0 THEN 0 ELSE pending
    /\ UNCHANGED << watched, snapshot, notify >>
    /\ UNCHANGED notObserverVars

\* The library changes: a batch of additions, removals and updates, for
\* which the native library queues one notification to a registered observer.
LibraryChanged(new) ==
    /\ new # watched
    /\ watched' = new
    /\ IF observer.registrations > 0
       THEN pending < MaxPending /\ pending' = pending + 1
       ELSE pending' = pending
    /\ UNCHANGED << observer, snapshot, notify >>
    /\ UNCHANGED notObserverVars

\* The run loop delivers one notification: photoLibraryDidChange_ derives the
\* changes since the last snapshot and calls the user's callback with them.
photoLibraryDidChange_ ==
    /\ pending > 0
    /\ notify.handled < MaxNotifications
    /\ pending' = pending - 1
    /\ LET changes == AssetChanges(snapshot, watched) IN
       notify' = [handled |-> notify.handled + 1,
                  callbacks |-> notify.callbacks + 1,
                  last |-> [added |-> changes.added, removed |-> changes.removed,
                            updated |-> changes.updated, state |-> observer.state]]
    /\ snapshot' = watched
    /\ UNCHANGED << observer, watched >>
    /\ UNCHANGED notObserverVars

InitObserver ==
    /\ RaceIdle
    /\ ThreadIdle
    /\ SlowMoIdle
    /\ LiveIdle
    /\ ModeIdle
    /\ BridgeIdle
    /\ FactoryIdle
    /\ ExportIdle
    /\ FilesIdle
    /\ LibIdle
    /\ AuthIdle
    /\ observer = NoObserver
    /\ watched \in [WatchedAssets -> Revisions]
    /\ snapshot = [a \in WatchedAssets |-> 0]
    /\ pending = 0
    /\ notify = [handled |-> 0, callbacks |-> 0, last |-> NoChanges]

NextObserver ==
    \/ Construct
    \/ Start
    \/ Stop
    \/ \E new \in [WatchedAssets -> Revisions] : LibraryChanged(new)
    \/ photoLibraryDidChange_

SpecObserver == InitObserver /\ [][NextObserver]_vars

(***************************************************************************)
(* Claims about the change observer                                        *)
(***************************************************************************)
\* C19: the observer is Unregistered or Observing: a newly constructed
\* observer is Unregistered, start() moves it to Observing, stop() moves it
\* back to Unregistered, and a caller that calls start() once after
\* construction and stop() once afterwards has the observer registered with
\* the native library at most once at any time.
C19_ObserverStateMachine ==
    /\ (observer.constructed => observer.state \in {"Unregistered", "Observing"})
    /\ (observer.constructed /\ ~observer.started
          => observer.state = "Unregistered" /\ observer.registrations = 0)
    /\ (observer.started /\ ~observer.stopped
          => observer.state = "Observing" /\ observer.registrations = 1)
    /\ (observer.stopped
          => observer.state = "Unregistered" /\ observer.registrations = 0)
    /\ observer.registrations <= 1

\* start() leaves the observer Observing and stop() leaves it Unregistered
\* with no registration left.
StartAndStopMoveTheObserver ==
    /\ (observer.constructed => observer.state \in {"Unregistered", "Observing"})
    /\ (observer.started /\ ~observer.stopped => observer.state = "Observing")
    /\ (observer.state = "Unregistered" => observer.registrations = 0)

\* The observer is registered by its constructor before any start().
RegisteredByConstructor ==
    /\ observer.constructed
    /\ ~observer.started
    /\ observer.state = "Observing"
    /\ observer.registrations = 1

\* After the constructor and one start() the observer has been registered
\* twice without an unregistration between.
RegisteredTwice ==
    /\ observer.started
    /\ ~observer.stopped
    /\ observer.registrations = 2

LiveImpls == {"asset._LivePhotoRequest", "photokit.LivePhotoRequest"}

\* delegate = PhotoKitNotificationsDelegate.alloc().init() in asset.py, where
\* the class is named _PhotoKitNotificationDelegate; photokit.py names its
\* own PhotoKitNotificationDelegate
DelegateResolves(impl) == impl = "photokit.LivePhotoRequest"

\* AppHelper.stopEventLoop(): stops the loop that is running, if one is
stopEventLoop(st) == IF st = "none" THEN "none" ELSE "stop"

\* handler(result, info) followed by _PhotoKitNotificationDelegate
\* .liveNotification_ for the notification it posts
handler(degraded, photo, st) ==
    IF ~degraded
    THEN [live_photo |-> "result", stopper |-> stopEventLoop(st)]
    ELSE [live_photo |-> photo, stopper |-> st]

\* requestLivePhotoResources() up to the native request
RequestLivePhotoResources(impl) ==
    /\ live_pc \in {"idle", "ended"}
    /\ live_call.ncalls < MaxLiveCalls
    /\ live_call' = [impl |-> impl, observers_before |-> nc_observers,
                     ncalls |-> live_call.ncalls + 1]
    /\ live_native' = NoLiveNative
    /\ stopper' = "none"
    /\ IF DelegateResolves(impl)
       THEN /\ nc_observers' = nc_observers + 1
            /\ live_photo' = "None"
            /\ live_pc' = "requested"
            /\ live_end' = NoLiveEnd
       ELSE /\ live_pc' = "ended"
            /\ live_end' = [how |-> "raised", read |-> "none", exc |-> "NameError"]
            /\ UNCHANGED << nc_observers, live_photo >>
    /\ UNCHANGED notLiveVars

\* AppHelper.runConsoleEventLoop(installInterrupt=True) installs its stopper
\* and starts running the loop
RunConsoleEventLoop ==
    /\ live_pc = "requested"
    /\ live_pc' = "looping"
    /\ stopper' = "running"
    /\ UNCHANGED << live_call, nc_observers, live_photo, live_native, live_end >>
    /\ UNCHANGED notLiveVars

\* The native layer calls the result handler, with a degraded result any
\* number of times and then with the final one.
ResultHandler(degraded) ==
    /\ live_pc \in {"requested", "looping"}
    /\ ~live_native.final
    /\ degraded => live_native.degraded < MaxDegraded
    /\ LET h == handler(degraded, live_photo, stopper) IN
       /\ live_photo' = h.live_photo
       /\ stopper' = h.stopper
    /\ live_native' = [degraded |-> live_native.degraded + (IF degraded THEN 1 ELSE 0),
                       final |-> ~degraded,
                       early |-> IF degraded THEN live_native.early
                                 ELSE live_pc = "requested"]
    /\ UNCHANGED << live_call, live_pc, nc_observers, live_end >>
    /\ UNCHANGED notLiveVars

\* The loop has been stopped: the request reads self.live_photo and returns
\* its resources.
EventLoopStopped ==
    /\ live_pc = "looping"
    /\ stopper = "stop"
    /\ live_pc' = "ended"
    /\ stopper' = "none"
    /\ live_end' = [how |-> "returned", read |-> live_photo, exc |-> "none"]
    /\ UNCHANGED << live_call, nc_observers, live_photo, live_native >>
    /\ UNCHANGED notLiveVars

\* KeyboardInterrupt inside the try: the except clause stops the loop and the
\* request goes on to read self.live_photo.
KeyboardInterrupt ==
    /\ live_pc \in {"requested", "looping"}
    /\ live_pc' = "ended"
    /\ stopper' = "none"
    /\ live_end' = [how |-> "interrupted", read |-> live_photo, exc |-> "none"]
    /\ UNCHANGED << live_call, nc_observers, live_photo, live_native >>
    /\ UNCHANGED notLiveVars

InitLive ==
    /\ RaceIdle
    /\ ThreadIdle
    /\ SlowMoIdle
    /\ ModeIdle
    /\ BridgeIdle
    /\ FactoryIdle
    /\ ExportIdle
    /\ FilesIdle
    /\ LibIdle
    /\ AuthIdle
    /\ ObserverIdle
    /\ live_call = NoLiveCall
    /\ live_pc = "idle"
    /\ nc_observers = 0
    /\ live_photo = "None"
    /\ live_native = NoLiveNative
    /\ stopper = "none"
    /\ live_end = NoLiveEnd

NextLive ==
    \/ \E impl \in LiveImpls : RequestLivePhotoResources(impl)
    \/ RunConsoleEventLoop
    \/ \E degraded \in BOOLEAN : ResultHandler(degraded)
    \/ EventLoopStopped
    \/ KeyboardInterrupt

SpecLive == InitLive /\ [][NextLive]_vars

\* The requesting thread keeps running: it enters the event loop, and leaves
\* it once it has been stopped.  Interrupts and native callbacks are not
\* promised.
SpecLiveFair ==
    /\ SpecLive
    /\ WF_vars(RunConsoleEventLoop)
    /\ WF_vars(EventLoopStopped)

(***************************************************************************)
(* Claims about requestLivePhotoResources                                  *)
(***************************************************************************)
\* C21: after requestLivePhotoResources has returned or raised (an
\* interrupted wait included) the observer it registered is registered no
\* longer: the notification center holds as many observers as before the
\* request, so their number does not grow over repeated requests.
C21_ObserverRemovedAfterRequest ==
    live_pc = "ended" => nc_observers = live_call.observers_before

\* Every request that gets as far as addObserver leaves one more observer
\* behind, on the return path and on the interrupted path.
ObserverLeftBehind ==
    (live_pc = "ended" /\ live_end.how # "raised")
        => nc_observers = live_call.observers_before + 1

\* Two requests have ended and two observers are registered.
TwoObserversAfterTwoRequests ==
    /\ live_pc = "ended"
    /\ live_call.ncalls = 2
    /\ nc_observers = 2

\* _LivePhotoRequest of asset.py ends in NameError on the delegate's name,
\* before addObserver and before the native request.
AssetRequestRaisesNameError ==
    (live_call.impl = "asset._LivePhotoRequest")
        => /\ live_pc = "ended"
           /\ live_end.exc = "NameError"
           /\ nc_observers = live_call.observers_before

\* C22: the resources are derived only from a non-degraded result: a
\* degraded callback never ends the wait, and on every path past the event
\* loop, an interrupted wait included, the live photo read has been set by
\* a non-degraded callback.
C22_ReadsOnlyNonDegradedResult ==
    /\ (stopper = "stop" => live_native.final)
    /\ (live_pc = "ended" /\ live_end.how # "raised"
          => live_end.read = "result" /\ live_native.final)

\* A degraded callback never ends the wait, and a request whose loop was
\* stopped by the notification reads the non-degraded result.
StoppedLoopReadsFinalResult ==
    /\ (stopper = "stop" => live_native.final)
    /\ (live_pc = "ended" /\ live_end.how = "returned"
          => live_end.read = "result" /\ live_native.final)

\* An interrupted request has read self.live_photo while it was None.
InterruptedReadsNone ==
    /\ live_pc = "ended"
    /\ live_end.how = "interrupted"
    /\ live_end.read = "None"

\* C23: once the native layer has delivered a non-degraded result, the
\* request returns, whether the handler ran before or after the event loop
\* started.
C23_FinalResultLeadsToReturn ==
    (live_native.final /\ live_pc \in {"requested", "looping"})
        ~> (live_pc = "ended")

\* A non-degraded result delivered while the loop runs leads to the return.
FinalResultInLoopLeadsToReturn ==
    (live_native.final /\ ~live_native.early /\ live_pc = "looping")
        ~> (live_pc = "ended")

\* The handler ran before the loop started, the stop was lost, and the
\* request is in the loop with nothing left to stop it.
StopLostBeforeLoop ==
    /\ live_pc = "looping"
    /\ live_native.final
    /\ live_native.early
    /\ stopper = "running"
    /\ live_photo = "result"

(***************************************************************************)
(* asset.py: _SlowMoVideoExporter.exportSlowMoVideo                        *)
(* The AVAssetExportSession starts with status unknown (0);                *)
(* exportAsynchronouslyWithCompletionHandler queues it (waiting), the      *)
(* native layer then moves it on to exporting and to one of the terminal   *)
(* statuses completed, failed and cancelled.  Time is in milliseconds.     *)
(***************************************************************************)
AVAssetExportSessionStatusWaiting == 1
AVAssetExportSessionStatusExporting == 2
AVAssetExportSessionStatusCompleted == 3
\* constants.py: MIN_SLEEP = 0.015 seconds
MIN_SLEEP == 15

ExportStatuses == 0..MaxExportStatus

\* the terminal statuses past completed: failed, cancelled
FailedOrCancelled(status) == status > AVAssetExportSessionStatusCompleted

\* The loop body taking every status that is not waiting as the end of the
\* export.
poll_breaks_when_not_waiting(status) ==
    IF status = AVAssetExportSessionStatusWaiting THEN "sleep" ELSE "break"

\* One pass of the `while True` loop on the status it read: break, raise
\* PhotoKitExportError, or sleep and poll again.
poll(status) ==
    IF status = AVAssetExportSessionStatusCompleted THEN "break"
    ELSE IF status \notin {AVAssetExportSessionStatusWaiting,
                           AVAssetExportSessionStatusExporting}
    THEN "raise"
    ELSE "sleep"

\* exportSlowMoVideo() up to the loop:
\* exporter.exportAsynchronouslyWithCompletionHandler_(handler)
ExportSlowMoVideo ==
    /\ slowmo_pc \in {"idle", "returned", "raised"}
    /\ slowmo_exports < MaxSlowMoExports
    /\ slowmo_exports' = slowmo_exports + 1
    /\ session_status' = AVAssetExportSessionStatusWaiting
    /\ slowmo_pc' = "polling"
    /\ slowmo_status' = 0
    /\ slowmo_slept' = 0
    /\ UNCHANGED notSlowMoVars

\* status = exporter.status() and the tests on it
PollStatus ==
    /\ slowmo_pc = "polling"
    /\ slowmo_status' = session_status
    /\ slowmo_pc' = CASE poll(session_status) = "break" -> "returned"
                      [] poll(session_status) = "raise" -> "raised"
                      [] OTHER -> "sleeping"
    /\ UNCHANGED << session_status, slowmo_slept, slowmo_exports >>
    /\ UNCHANGED notSlowMoVars

\* time.sleep(MIN_SLEEP)
Sleep ==
    /\ slowmo_pc = "sleeping"
    /\ slowmo_slept < MaxPolls * MIN_SLEEP
    /\ slowmo_slept' = slowmo_slept + MIN_SLEEP
    /\ slowmo_pc' = "polling"
    /\ UNCHANGED << session_status, slowmo_status, slowmo_exports >>
    /\ UNCHANGED notSlowMoVars

\* The native layer moves the session on.
SessionProgress(status) ==
    /\ slowmo_pc \in {"polling", "sleeping"}
    /\ session_status \in {AVAssetExportSessionStatusWaiting,
                           AVAssetExportSessionStatusExporting}
    /\ status > session_status
    /\ session_status' = status
    /\ UNCHANGED << slowmo_pc, slowmo_status, slowmo_slept, slowmo_exports >>
    /\ UNCHANGED notSlowMoVars

InitSlowMo ==
    /\ RaceIdle
    /\ ThreadIdle
    /\ ModeIdle
    /\ BridgeIdle
    /\ FactoryIdle
    /\ ExportIdle
    /\ FilesIdle
    /\ LibIdle
    /\ AuthIdle
    /\ ObserverIdle
    /\ LiveIdle
    /\ session_status = 0
    /\ slowmo_pc = "idle"
    /\ slowmo_status = 0
    /\ slowmo_slept = 0
    /\ slowmo_exports = 0

NextSlowMo ==
    \/ ExportSlowMoVideo
    \/ PollStatus
    \/ Sleep
    \/ \E status \in ExportStatuses : SessionProgress(status)

SpecSlowMo == InitSlowMo /\ [][NextSlowMo]_vars

SlowMoRaised ==
    /\ slowmo_pc = "raised"
    /\ slowmo_slept > 0
    /\ FailedOrCancelled(session_status)

(***************************************************************************)
(* photolibrary.py: PhotoLibrary() and enable_multi_library_mode() called  *)
(* from several threads.  Nothing guards _global_single_library_mode, so   *)
(* each read and each write of it is a step of its own and the threads'    *)
(* steps interleave.  Authorization is granted throughout.                 *)
(***************************************************************************)
Threads == 1..NumThreads
ThreadOps == {"PhotoLibrary()", "PhotoLibrary(library_path)", "enable_multi_library_mode"}

\* thread t moves on to pc
Goto(t, pc_) == threads' = [threads EXCEPT ![t].pc = pc_]

\* thread t ends its call
Ends(t, res) ==
    threads' = [threads EXCEPT ![t].pc = "done", ![t].result = res,
                               ![t].after_switch = ever_switched]

\* a thread calls PhotoLibrary(), PhotoLibrary(library_path) or
\* PhotoLibrary.enable_multi_library_mode(); the authorization check passes
ThreadCalls(t, op) ==
    /\ threads[t].pc \in {"idle", "done"}
    /\ threads[t].ncalls < MaxThreadCalls
    /\ threads' = [threads EXCEPT ![t] = [op |-> op, result |-> "none",
                      after_switch |-> FALSE, ncalls |-> threads[t].ncalls + 1,
                      pc |-> IF op = "PhotoLibrary()" THEN "check" ELSE "native"]]
    /\ UNCHANGED << ever_switched, modeVars >>
    /\ UNCHANGED notModeThreadVars

\* __init__ without a path: if not _global_single_library_mode: raise
CheckFlag(t) ==
    /\ threads[t].pc = "check"
    /\ IF ~_global_single_library_mode
       THEN Ends(t, "PhotoKitError")
       ELSE Goto(t, "write")
    /\ UNCHANGED << ever_switched, modeVars >>
    /\ UNCHANGED notModeThreadVars

\* Photos.PHPhotoLibrary.enableMultiLibraryMode()
EnableNative(t) ==
    /\ threads[t].pc = "native"
    /\ native_multi_library_mode' = TRUE
    /\ Goto(t, "write")
    /\ UNCHANGED << ever_switched, _global_single_library_mode, macos_legacy,
                    ph_authorization, libraries, fs_dirs, last_call >>
    /\ UNCHANGED notModeThreadVars

\* _global_single_library_mode = True / = False
WriteFlag(t) ==
    /\ threads[t].pc = "write"
    /\ _global_single_library_mode' = (threads[t].op = "PhotoLibrary()")
    /\ ever_switched' = (ever_switched \/ threads[t].op # "PhotoLibrary()")
    /\ IF threads[t].op = "enable_multi_library_mode"
       THEN threads' = [threads EXCEPT ![t].pc = "done", ![t].result = "ok",
                                       ![t].after_switch = ever_switched']
       ELSE Goto(t, "handles")
    /\ UNCHANGED << native_multi_library_mode, macos_legacy, ph_authorization,
                    libraries, fs_dirs, last_call >>
    /\ UNCHANGED notModeThreadVars

\* the handles are assigned and __init__ returns
AssignHandles(t) ==
    /\ threads[t].pc = "handles"
    /\ Ends(t, "ok")
    /\ UNCHANGED << ever_switched, modeVars >>
    /\ UNCHANGED notModeThreadVars

InitThreads ==
    /\ RaceIdle
    /\ BridgeIdle
    /\ FactoryIdle
    /\ ExportIdle
    /\ FilesIdle
    /\ LibIdle
    /\ AuthIdle
    /\ ObserverIdle
    /\ LiveIdle
    /\ SlowMoIdle
    /\ _global_single_library_mode = TRUE
    /\ native_multi_library_mode = FALSE
    /\ macos_legacy = FALSE
    /\ ph_authorization = [legacy |-> FALSE, read_write |-> TRUE, add_only |-> TRUE]
    /\ libraries = << >>
    /\ fs_dirs = {SystemLibraryPath}
    /\ last_call = [op |-> "none", arg |-> NoPath, result |-> "none",
                    pre_single |-> TRUE, pre_authorized |-> FALSE,
                    pre_nlibs |-> 0, pre_isdir |-> FALSE]
    /\ threads = [t \in Threads |-> NoThreadCall]
    /\ ever_switched = FALSE

NextThreads ==
    \E t \in Threads :
        \/ \E op \in ThreadOps : ThreadCalls(t, op)
        \/ CheckFlag(t)
        \/ EnableNative(t)
        \/ WriteFlag(t)
        \/ AssignHandles(t)

SpecThreads == InitThreads /\ [][NextThreads]_vars

(***************************************************************************)
(* Claims about concurrent constructions                                   *)
(***************************************************************************)
\* C25: under any interleaving of PhotoLibrary constructions and
\* enable_multi_library_mode() calls on several threads, no construction
\* without a path completes successfully after the flag has been switched to
\* multi-library mode.
C25_NoDefaultConstructionAfterSwitch ==
    \A t \in Threads :
        (threads[t].op = "PhotoLibrary()" /\ threads[t].pc = "done"
         /\ threads[t].result = "ok")
            => ~threads[t].after_switch

\* A construction without a path that starts after the switch raises
\* PhotoKitError: the violation needs a switch between its check and its end.
DefaultConstructionStartedAfterSwitchRaises ==
    [][ \A t \in Threads :
          (threads[t].pc = "check" /\ threads'[t].pc # "check"
           /\ ~_global_single_library_mode)
              => threads'[t].result = "PhotoKitError" ]_vars

\* The race also resets the flag: it is True again after it was set to False.
FlagResetAfterSwitch ==
    /\ ever_switched
    /\ _global_single_library_mode
    /\ native_multi_library_mode

(***************************************************************************)
(* asset.py, utils.py: exports with overwrite=False running on several     *)
(* threads against one dest.  An export chooses its path with              *)
(* increment_filename and opens it for writing in a later statement; the   *)
(* other threads' steps come between.                                      *)
(***************************************************************************)
Exporters == 1..NumExporters

\* the export that wrote a file of the directory; << 0, 0 >> when none did
WrittenBy(dir, path) ==
    IF path \in Names(dir)
    THEN (CHOOSE f \in dir : f.name = path).by
    ELSE << 0, 0 >>

\* The path opened for writing when the choice is made again at the open,
\* on the directory as it then is.
open_path_rechecked(dir, chosen, output_file) ==
    increment_filename(dir, output_file)

\* with open(output_file, "wb"): the path opened is the one chosen at
\* `output_file = pathlib.Path(increment_filename(output_file))`, whatever
\* the directory holds by now
open_path(dir, chosen, output_file) == chosen

\* export(dest, overwrite=False) up to
\* output_file = pathlib.Path(increment_filename(output_file))
ChoosePath(t, stem, ext) ==
    /\ exporters[t].pc \in {"idle", "written"}
    /\ exporters[t].nexports < MaxRaceExports
    /\ LET output_file == OutputFile("photo", stem, ext) IN
       exporters' = [exporters EXCEPT ![t] =
                        [pc |-> "chosen", output_file |-> output_file,
                         path |-> increment_filename(race_dir, output_file),
                         seen |-> Names(race_dir), replaced |-> << 0, 0 >>,
                         nexports |-> exporters[t].nexports + 1]]
    /\ UNCHANGED race_dir
    /\ UNCHANGED notRaceVars

\* with open(output_file, "wb") as fd: fd.write(data)
WriteChosen(t) ==
    /\ exporters[t].pc = "chosen"
    /\ LET path == open_path(race_dir, exporters[t].path, exporters[t].output_file) IN
       /\ race_dir' = Write(race_dir, path, << t, exporters[t].nexports >>)
       /\ exporters' = [exporters EXCEPT ![t].pc = "written", ![t].path = path,
                                         ![t].replaced = WrittenBy(race_dir, path)]
    /\ UNCHANGED notRaceVars

InitRace ==
    /\ ModeIdle
    /\ BridgeIdle
    /\ FactoryIdle
    /\ ExportIdle
    /\ FilesIdle
    /\ LibIdle
    /\ AuthIdle
    /\ ObserverIdle
    /\ LiveIdle
    /\ SlowMoIdle
    /\ ThreadIdle
    /\ race_dir \in { {}, { [name |-> << "photo", ".", "jpg" >>, by |-> << 0, 0 >>] },
                      { [name |-> << "Photo", ".", "png" >>, by |-> << 0, 0 >>] } }
    /\ exporters = [t \in Exporters |-> NoExporter]

NextRace ==
    \E t \in Exporters :
        \/ \E stem \in Stems : ChoosePath(t, stem, "jpg")
        \/ WriteChosen(t)

SpecRace == InitRace /\ [][NextRace]_vars

(***************************************************************************)
(* Claims about concurrent exports                                         *)
(***************************************************************************)
\* C26: the directory check and the write of an export with overwrite=False
\* are two steps: the path an export writes is the one it chose from the
\* directory as it was at its check, so two concurrent exports of the same
\* stem that check before either has written choose the same path, and the
\* later write replaces the file the other export wrote.
C26_CheckAndWriteAreNotAtomic ==
    [][ \A t \in Exporters :
          (exporters[t].pc = "chosen" /\ exporters'[t].pc = "written") =>
            /\ exporters'[t].path = exporters[t].path
            /\ exporters[t].path \notin exporters[t].seen
            /\ \A u \in Exporters \ {t} :
                 (/\ exporters[u].pc = "written"
                  /\ exporters[u].output_file = exporters[t].output_file
                  /\ exporters[u].seen = exporters[t].seen)
                    => /\ exporters[u].path = exporters[t].path
                       /\ exporters'[t].replaced # << 0, 0 >>
                       /\ ~(\E f \in race_dir' : f.by = << u, exporters[u].nexports >>)
      ]_vars

\* C26 witness: two exports of photo.jpg with overwrite=False have both
\* written photo (1).jpg, and the file of the first is gone.
C26_Witness ==
    \E t, u \in Exporters :
        /\ t # u
        /\ exporters[t].pc = "written"
        /\ exporters[u].pc = "written"
        /\ exporters[t].path = << "photo", " (", "1", ")", ".", "jpg" >>
        /\ exporters[u].path = exporters[t].path
        /\ exporters[t].replaced = << u, 1 >>
        /\ ~(\E f \in race_dir : f.by = << u, 1 >>)

====
